---- MODULE Spec2Model ----
(***************************************************************************)
(* Inventory transaction workflow of logiEx_api: the purchases, sales and  *)
(* transfers controllers over the stock ledger (inventoryProducts).        *)
(*                                                                         *)
(* Strings are sequences of one-character strings, so that the store's     *)
(* ILIKE matching is computed and not assumed.  Money is kept in           *)
(* hundredths of a currency unit (numeric(10,3) columns hold them exactly) *)
(* so that quantity*unit_price*discount/100 is an integer.                 *)
(***************************************************************************)
EXTENDS Integers, Sequences, FiniteSets, TLC

VARIABLES
    purchases,          \* set of purchase headers
    purchaseProducts,   \* sequence of purchase lines
    sales,              \* set of sale headers
    saleProducts,       \* sequence of sale lines
    transfers,          \* set of transfer headers
    transferProducts,   \* sequence of transfer lines
    inventoryProducts,  \* the stock ledger: sequence of rows, index = row id
    resp,               \* the last request and its HTTP response
    requests,           \* number of requests served so far
    txs                 \* the create transactions in flight, one per process

vars == <<purchases, purchaseProducts, sales, saleProducts, transfers,
          transferProducts, inventoryProducts, resp, requests, txs>>

tables == <<purchases, purchaseProducts, sales, saleProducts, transfers,
            transferProducts, inventoryProducts>>

(***************************************************************************)
(* Bounds of the model.                                                    *)
(***************************************************************************)
MaxLines == 2       \* lines per request
MaxQty == 2         \* largest quantity of a request line
MaxRequests == 4    \* requests served in one behaviour

(***************************************************************************)
(* Strings and ILIKE.                                                      *)
(***************************************************************************)
UpperChars == <<"A","B","C","D","E","F","G","H","I","J","K","L","M",
                "N","O","P","Q","R","S","T","U","V","W","X","Y","Z">>
LowerChars == <<"a","b","c","d","e","f","g","h","i","j","k","l","m",
                "n","o","p","q","r","s","t","u","v","w","x","y","z">>

LowerOf ==
    [c \in {UpperChars[i] : i \in DOMAIN UpperChars} |->
       LowerChars[CHOOSE i \in DOMAIN UpperChars : UpperChars[i] = c]]

Lower(c) == IF c \in DOMAIN LowerOf THEN LowerOf[c] ELSE c

RECURSIVE Like(_, _)
\* s ILIKE pat: % matches any run of characters, _ any one character, and a
\* backslash makes the character after it literal (the store's default
\* escape).  A pattern ending in a lone backslash is an error in the store
\* and matches nothing here; no request of the model ends a key that way.
Like(s, pat) ==
    IF pat = <<>> THEN s = <<>>
    ELSE IF Head(pat) = "\\"
         THEN /\ Len(pat) >= 2
              /\ s # <<>>
              /\ Lower(pat[2]) = Lower(Head(s))
              /\ Like(Tail(s), Tail(Tail(pat)))
    ELSE IF Head(pat) = "%"
         THEN Like(s, Tail(pat)) \/ (s # <<>> /\ Like(Tail(s), pat))
         ELSE /\ s # <<>>
              /\ (Head(pat) = "_" \/ Lower(Head(pat)) = Lower(Head(s)))
              /\ Like(Tail(s), Tail(pat))

\* drizzle ilike(column, value): column ILIKE value, value is the pattern
ilike(column, value) == Like(column, value)

RECURSIVE ToLower(_)
ToLower(s) == IF s = <<>> THEN <<>> ELSE <<Lower(Head(s))>> \o ToLower(Tail(s))

(***************************************************************************)
(* Absent request fields (undefined in the request body).                  *)
(***************************************************************************)
Absent == <<>>
Given(x) == x # Absent

(***************************************************************************)
(* Reference tables, read only by the workflows, and the request values.   *)
(***************************************************************************)
MR1 == <<"M","R","0","0","0","1">>
MR2 == <<"M","R","0","0","0","2">>
InvA == <<"A">>
InvB == <<"B">>
InvC == <<"C">>
ProdP == <<"P">>
ProdQ == <<"Q">>
VendorV == <<"V">>
Cust1 == <<"c","1">>
Bill1 == <<"S","1">>
Bill2 == <<"S","2">>
Trf1 == <<"T","1">>
Trf2 == <<"T","2">>
Addr == <<"x">>
Processing == <<"p">>
\* names differing from InvA, ProdP in letter case only
InvALower == <<"a">>
ProdPLower == <<"p">>
\* keys differing from MR1, Bill1, Trf1 in letter case only
MR1Lower == <<"m","r","0","0","0","1">>
Bill1Lower == <<"s","1">>
Trf1Lower == <<"t","1">>
\* keys containing the store's escape character
MREscape == <<"M","R","\\","0","0","1">>
BillEscape == <<"S","\\","1">>
TrfEscape == <<"T","\\","1">>
\* keys containing the pattern characters of ILIKE
BillAny == <<"S","_">>
KeyAll == <<"%">>

inventories == {InvA, InvB, InvC}
vendors == {VendorV}
customers == {Cust1}
products == {ProdP, ProdQ}

(***************************************************************************)
(* Lookup services.  Each returns the rows its query matches; the          *)
(* controllers take one of them (.limit(1)).                               *)
(***************************************************************************)
findSaleByBillId(billId) == {s \in sales : ilike(s.bill_id, billId)}
findPurchaseByMrId(mrId) == {p \in purchases : ilike(p.mr_id, mrId)}
findTransferByTrfId(trfId) == {t \in transfers : ilike(t.trf_id, trfId)}
findInventoryByName(name) == {i \in inventories : ilike(i, name)}
findVendorByName(name) == {v \in vendors : ilike(v, name)}
findProductByName(name) == {p \in products : ilike(p, name)}
findCustomerById(id) == {c \in customers : c = id}

(***************************************************************************)
(* Pricing.                                                                *)
(***************************************************************************)
\* parseFloat(discount) || 0 ; a discount is <<>> (absent) or <<d>>
parseDiscountBroken(discount) == IF Given(discount) THEN discount[1] + 1 ELSE 0
parseDiscount(discount) == IF Given(discount) THEN discount[1] ELSE 0

\* quantity * unit_price - (quantity * unit_price * parseDiscount) / 100,
\* in hundredths
productTotalPrice(quantity, unit_price, discount) ==
    100 * quantity * unit_price - quantity * unit_price * parseDiscount(discount)

RECURSIVE SumTotalPrice(_)
\* lines.reduce((total, product) => total + parseFloat(product.total_price), 0)
SumTotalPrice(lines) ==
    IF lines = <<>> THEN 0
    ELSE Head(lines).total_price + SumTotalPrice(Tail(lines))

RECURSIVE SelectLines(_, _, _)
SelectLines(lines, key, id) ==
    IF lines = <<>> THEN <<>>
    ELSE IF ilike(Head(lines)[key], id)
         THEN <<Head(lines)>> \o SelectLines(Tail(lines), key, id)
         ELSE SelectLines(Tail(lines), key, id)

calculatePurchasePrice(mrId) == SumTotalPrice(SelectLines(purchaseProducts, "mr_id", mrId))
calculateSalePrice(billId) == SumTotalPrice(SelectLines(saleProducts, "bill_id", billId))

(***************************************************************************)
(* Responses.                                                              *)
(***************************************************************************)
\* reason names the statement of the handler that produced the response
Response(op, status, reason, req, matched) ==
    [op |-> op, status |-> status, reason |-> reason, req |-> req, matched |-> matched]

NoReq == <<>>
\* a response that names only the business key of the request
Keyed(key) == [key |-> key]
\* the error message of a stock failure names the line that found no row:
\* Product "${productName}" (${quantity} units) not found at inventory "${inventory}"
StockMiss(key, inventory, line) ==
    [key |-> key, inventory |-> inventory, product |-> line.product,
     quantity |-> line.quantity]

Reject(op, status, reason, req) ==
    /\ resp' = Response(op, status, reason, req, <<>>)
    /\ UNCHANGED tables

(***************************************************************************)
(* purchasesController.create                                              *)
(***************************************************************************)
insertPurchaseSchemaOk(req) ==
    /\ Len(req.mr_id) >= 1
    /\ Len(req.vendor) >= 1
    /\ Len(req.inventory) >= 1

insertPurchaseProductSchemaOk(line) ==
    /\ Len(line.product) >= 1
    /\ line.quantity > 0
    /\ line.unit_price > 0

\* purchase lines are unique per (mr_id, product)
purchaseProductDuplicate(pp, mr_id, product) ==
    \E i \in DOMAIN pp : pp[i].mr_id = mr_id /\ pp[i].product = product

\* an insert that adds to a row of the same inventory and product if any
InsertLedgerRowMerged(ip, row) ==
    IF \E id \in DOMAIN ip : /\ ip[id].inventory = row.inventory
                             /\ ip[id].product = row.product
    THEN LET id == CHOOSE id \in DOMAIN ip : /\ ip[id].inventory = row.inventory
                                            /\ ip[id].product = row.product
         IN [ip EXCEPT ![id].quantity = @ + row.quantity]
    ELSE Append(ip, row)
\* tx.insert(inventoryProducts).values({mr_id, inventory, product, quantity})
InsertLedgerRow(ip, row) == Append(ip, row)

RECURSIVE PurchaseLoop(_, _, _)
\* for (const product of products) { insert purchaseProducts; insert inventoryProducts }
PurchaseLoop(st, req, i) ==
    IF i > Len(req.products) \/ st.err THEN st
    ELSE LET line == req.products[i]
             d == parseDiscount(line.discount)
             row == [mr_id |-> req.mr_id, product |-> line.product,
                     quantity |-> line.quantity, unit_price |-> line.unit_price,
                     discount |-> d,
                     total_price |-> productTotalPrice(line.quantity, line.unit_price, line.discount)]
         IN IF purchaseProductDuplicate(st.pp, req.mr_id, line.product)
            THEN [st EXCEPT !.err = TRUE]
            ELSE PurchaseLoop(
                   [pp |-> Append(st.pp, row),
                    all |-> Append(st.all, row),
                    ip |-> InsertLedgerRow(st.ip,
                             [mr_id |-> req.mr_id, inventory |-> req.inventory,
                              product |-> line.product, quantity |-> line.quantity]),
                    err |-> FALSE],
                   req, i + 1)

\* db.transaction: a throw inside the callback rolls every statement back
purchaseRollbackLeak(out) ==
    /\ purchaseProducts' = out.pp
    /\ inventoryProducts' = out.ip
    /\ UNCHANGED purchases
purchaseRollback(out) == UNCHANGED <<purchases, purchaseProducts, inventoryProducts>>

PurchaseCreate(req) ==
    LET op == "purchaseCreate" IN
    IF Len(req.products) = 0 THEN Reject(op, 400, "products", Keyed(req.mr_id))
    ELSE IF ~insertPurchaseSchemaOk(req) THEN Reject(op, 400, "schema", Keyed(req.mr_id))
    ELSE IF findPurchaseByMrId(req.mr_id) # {} THEN Reject(op, 409, "exists", Keyed(req.mr_id))
    ELSE IF findVendorByName(req.vendor) = {} THEN Reject(op, 404, "vendor", Keyed(req.mr_id))
    ELSE IF findInventoryByName(req.inventory) = {} THEN Reject(op, 404, "inventory", Keyed(req.mr_id))
    ELSE IF \E i \in DOMAIN req.products : ~insertPurchaseProductSchemaOk(req.products[i])
         THEN Reject(op, 400, "lineSchema", Keyed(req.mr_id))
    ELSE IF \E i \in DOMAIN req.products : findProductByName(req.products[i].product) = {}
         THEN Reject(op, 404, "product", Keyed(req.mr_id))
    ELSE IF \E p \in purchases : p.mr_id = req.mr_id THEN Reject(op, 500, "unique", Keyed(req.mr_id))
    ELSE LET header == [mr_id |-> req.mr_id, vendor |-> req.vendor,
                        inventory |-> req.inventory, adjustment |-> 0, total_price |-> 0]
             out == PurchaseLoop([pp |-> purchaseProducts, all |-> <<>>,
                                  ip |-> inventoryProducts, err |-> FALSE], req, 1)
             updatedTotalPrice == SumTotalPrice(out.all)
         IN IF out.err
            THEN /\ resp' = Response(op, 500, "duplicate", Keyed(req.mr_id), <<>>)
                 /\ purchaseRollback(out)
                 /\ UNCHANGED <<sales, saleProducts, transfers, transferProducts>>
            ELSE /\ purchases' = {IF ilike(p.mr_id, req.mr_id)
                                  THEN [p EXCEPT !.total_price = updatedTotalPrice]
                                  ELSE p : p \in purchases \cup {header}}
                 /\ purchaseProducts' = out.pp
                 /\ inventoryProducts' = out.ip
                 /\ resp' = Response(op, 201, "ok", req, <<>>)
                 /\ UNCHANGED <<sales, saleProducts, transfers, transferProducts>>

(***************************************************************************)
(* purchasesController.updateByMrId                                        *)
(***************************************************************************)
\* parseFloat(x) is <<>> for NaN and <<n>> for the number n; JS truthiness
Truthy(n) == n # <<>> /\ n[1] # 0

adjustmentRejectedLoose(parseAdjustment, availableTotalPrice) ==
    Truthy(parseAdjustment) /\ parseAdjustment[1] < 0
adjustmentRejected(parseAdjustment, availableTotalPrice) ==
    /\ Truthy(parseAdjustment)
    /\ (parseAdjustment[1] < 0 \/ parseAdjustment[1] > availableTotalPrice)

Or(a, b) == IF Given(a) THEN a ELSE b

\* a total that ignores the adjustment
setTotalPriceUnadjusted(availableTotalPrice, setAdjustment) == availableTotalPrice
\* const setTotalPrice = availableTotalPrice - setAdjustment
setTotalPrice(availableTotalPrice, setAdjustment) ==
    availableTotalPrice - setAdjustment

\* a relocation that leaves the rows made by transfers where they are
RelocateLotHome(ip, mrId, inventory) ==
    [i \in DOMAIN ip |->
       IF ilike(ip[i].mr_id, mrId)
          /\ \E h \in purchases : ilike(h.mr_id, mrId) /\ h.inventory = ip[i].inventory
       THEN [ip[i] EXCEPT !.inventory = inventory]
       ELSE ip[i]]
\* update inventoryProducts set inventory = .. where mr_id ilike mrId
RelocateLot(ip, mrId, inventory) ==
    [i \in DOMAIN ip |->
       IF ilike(ip[i].mr_id, mrId)
       THEN [ip[i] EXCEPT !.inventory = inventory]
       ELSE ip[i]]

\* what the handler holds when it reaches its first update statement, or the
\* status it returns before: one plan for each row the lookup may return
PurchaseUpdatePlan(mrId, body) ==
    LET parseAdjustment == body.adjustment
        Stop(status, reason) ==
           [status |-> status, reason |-> reason, existingPurchase |-> <<>>,
            updatedData |-> <<>>]
    IN
    IF findPurchaseByMrId(mrId) = {} THEN {Stop(404, "missing")}
    ELSE {IF Given(body.mr_id) /\ body.mr_id # existingPurchase.mr_id
             /\ findPurchaseByMrId(body.mr_id) # {}
          THEN Stop(409, "exists")
          ELSE IF Given(body.vendor) /\ body.vendor # existingPurchase.vendor
                  /\ findVendorByName(body.vendor) = {}
          THEN Stop(404, "vendor")
          ELSE IF Given(body.inventory) /\ body.inventory # existingPurchase.inventory
                  /\ findInventoryByName(body.inventory) = {}
          THEN Stop(404, "inventory")
          ELSE LET availableTotalPrice == calculatePurchasePrice(mrId) IN
            IF adjustmentRejected(parseAdjustment, availableTotalPrice)
            THEN Stop(400, "adjustment")
            ELSE LET setAdjustment == IF Truthy(parseAdjustment) THEN parseAdjustment[1]
                                      ELSE existingPurchase.adjustment
                 IN [status |-> 200, reason |-> "ok",
                     existingPurchase |-> existingPurchase,
                     updatedData |->
                        [mr_id |-> Or(body.mr_id, existingPurchase.mr_id),
                         vendor |-> Or(body.vendor, existingPurchase.vendor),
                         inventory |-> Or(body.inventory, existingPurchase.inventory),
                         total_price |-> setTotalPrice(availableTotalPrice,
                                                       setAdjustment),
                         adjustment |-> setAdjustment]]
          : existingPurchase \in findPurchaseByMrId(mrId)}

\* update purchases set updatedData where mr_id ilike mrId
UpdatePurchaseHeader(mrId, updatedData) ==
    {IF ilike(p.mr_id, mrId) THEN updatedData ELSE p : p \in purchases}

\* the handler run without another request between its two statements
PurchaseUpdate(mrId, body) ==
    LET op == "purchaseUpdate"
        req == [mrId |-> mrId, body |-> body]
    IN \E plan \in PurchaseUpdatePlan(mrId, body) :
         IF plan.status # 200 THEN Reject(op, plan.status, plan.reason, req)
         ELSE /\ purchases' = UpdatePurchaseHeader(mrId, plan.updatedData)
              /\ inventoryProducts' =
                   RelocateLot(inventoryProducts, mrId, plan.updatedData.inventory)
              /\ resp' = Response(op, 200, "ok", req, <<>>)
              /\ UNCHANGED <<purchaseProducts, sales, saleProducts, transfers,
                             transferProducts>>

(***************************************************************************)
(* Stock ledger statements.                                                *)
(***************************************************************************)
\* update inventoryProducts set quantity = quantity + n where id = ...
AddQuantityAbsolute(ip, id, n) == [ip EXCEPT ![id].quantity = n]
AddQuantity(ip, id, n) == [ip EXCEPT ![id].quantity = @ + n]

\* update inventoryProducts set quantity = quantity + n
\* where inventory ilike .. and product ilike .. and mr_id ilike ..
AddQuantityWhere(ip, inventory, product, mr_id, n) ==
    [i \in DOMAIN ip |->
       IF /\ ilike(ip[i].inventory, inventory)
          /\ ilike(ip[i].product, product)
          /\ ilike(ip[i].mr_id, mr_id)
       THEN [ip[i] EXCEPT !.quantity = @ + n]
       ELSE ip[i]]

(***************************************************************************)
(* purchasesController.deleteByMrId                                        *)
(***************************************************************************)
\* delete from purchases where mr_id ilike mrId returning * : the rows
\* returned.  The handler has no statement on the lines or on the ledger.
DeletedPurchases(mrId) == {p \in purchases : ilike(p.mr_id, mrId)}

PurchaseDelete(mrId) ==
    LET op == "purchaseDelete"
        req == [mrId |-> mrId]
    IN
    IF DeletedPurchases(mrId) = {} THEN Reject(op, 404, "missing", req)
    ELSE /\ purchases' = purchases \ DeletedPurchases(mrId)
         /\ resp' = Response(op, 200, "ok", req, <<>>)
         /\ UNCHANGED <<purchaseProducts, sales, saleProducts, transfers,
                        transferProducts, inventoryProducts>>

(***************************************************************************)
(* salesController.create                                                  *)
(***************************************************************************)
insertSaleSchemaOk(req) ==
    /\ Len(req.bill_id) >= 1
    /\ Len(req.shipping_address) >= 1
    /\ Len(req.inventory) >= 1

insertSaleProductSchemaOk(line) ==
    /\ Len(line.product) >= 1
    /\ line.quantity > 0
    /\ line.unit_price > 0

\* select from inventoryProducts where inventory ilike .. and product ilike ..
\* and quantity >= .. : the ids of the rows the query matches
SaleCandidatesExact(ip, inventory, line) ==
    {id \in DOMAIN ip : /\ ip[id].inventory = inventory
                        /\ ip[id].product = line.product
                        /\ ip[id].quantity >= line.quantity}
SaleCandidates(ip, inventory, line) ==
    {id \in DOMAIN ip : /\ ilike(ip[id].inventory, inventory)
                        /\ ilike(ip[id].product, line.product)
                        /\ ip[id].quantity >= line.quantity}

\* a sale line that always names the first lot
saleLineLotFirst(productQuery) == MR1
\* mr_id: productQuery.mr_id
saleLineLot(productQuery) == productQuery.mr_id

\* one pass of the loop body for one line: the set of states it can end in
SaleStep(st, req, line) ==
    IF ~insertSaleProductSchemaOk(line) THEN {[st EXCEPT !.err = "zod"]}
    ELSE LET cand == SaleCandidates(st.ip, req.inventory, line) IN
         IF cand = {}
         THEN {[st EXCEPT !.err = "throw",
                          !.miss = StockMiss(req.bill_id, req.inventory, line)]}
         ELSE {[ip |-> AddQuantity(st.ip, id, -line.quantity),
                miss |-> st.miss,
                all |-> Append(st.all,
                          [mr_id |-> saleLineLot(st.ip[id]), inventory |-> req.inventory,
                           bill_id |-> req.bill_id, product |-> line.product,
                           quantity |-> line.quantity, unit_price |-> line.unit_price,
                           discount |-> parseDiscount(line.discount),
                           total_price |-> productTotalPrice(line.quantity,
                                              line.unit_price, line.discount)]),
                matched |-> Append(st.matched, id),
                err |-> "none"] : id \in cand}

\* a loop whose body never runs
SaleLoopSkipped(S, req, i) == S

RECURSIVE SaleLoop(_, _, _)
\* for (const product of products) { ... }
SaleLoop(S, req, i) ==
    IF i > Len(req.products) THEN S
    ELSE SaleLoop(UNION {IF st.err # "none" THEN {st} ELSE SaleStep(st, req, req.products[i])
                         : st \in S}, req, i + 1)

\* db.transaction: a throw inside the callback rolls every statement back
saleRollbackLeak(out) ==
    /\ inventoryProducts' = out.ip
    /\ saleProducts' = saleProducts \o out.all
    /\ UNCHANGED sales
saleRollback(out) == UNCHANGED <<sales, saleProducts, inventoryProducts>>

SaleCreate(req) ==
    LET op == "saleCreate" IN
    IF Len(req.products) = 0 THEN Reject(op, 400, "products", Keyed(req.bill_id))
    ELSE IF ~insertSaleSchemaOk(req) THEN Reject(op, 400, "schema", Keyed(req.bill_id))
    ELSE IF findSaleByBillId(req.bill_id) # {} THEN Reject(op, 409, "exists", Keyed(req.bill_id))
    ELSE IF findCustomerById(req.customer_id) = {} THEN Reject(op, 404, "customer", Keyed(req.bill_id))
    ELSE IF findInventoryByName(req.inventory) = {} THEN Reject(op, 404, "inventory", Keyed(req.bill_id))
    ELSE IF \E p \in sales : p.bill_id = req.bill_id THEN Reject(op, 500, "unique", Keyed(req.bill_id))
    ELSE LET header == [bill_id |-> req.bill_id, customer_id |-> req.customer_id,
                        shipping_address |-> req.shipping_address,
                        status |-> req.status, adjustment |-> 0, total_amount |-> 0]
         IN \E out \in SaleLoop({[ip |-> inventoryProducts, all |-> <<>>,
                                  matched |-> <<>>, miss |-> NoReq,
                                  err |-> "none"]}, req, 1) :
              IF out.err # "none"
              THEN /\ resp' = IF out.err = "zod"
                              THEN Response(op, 400, "lineSchema", Keyed(req.bill_id), out.matched)
                              ELSE Response(op, 500, "stock", out.miss, out.matched)
                   /\ saleRollback(out)
                   /\ UNCHANGED <<purchases, purchaseProducts, transfers, transferProducts>>
              ELSE LET updatedTotalPrice == SumTotalPrice(out.all) IN
                   /\ sales' = {IF ilike(s.bill_id, req.bill_id)
                                THEN [s EXCEPT !.total_amount = updatedTotalPrice]
                                ELSE s : s \in sales \cup {header}}
                   /\ saleProducts' = saleProducts \o out.all
                   /\ inventoryProducts' = out.ip
                   /\ resp' = Response(op, 201, "ok", req, out.matched)
                   /\ UNCHANGED <<purchases, purchaseProducts, transfers, transferProducts>>

(***************************************************************************)
(* salesController.updateByBillId                                          *)
(***************************************************************************)
SaleUpdate(billId, body) ==
    LET op == "saleUpdate"
        req == [billId |-> billId, body |-> body]
        parseAdjustment == body.adjustment
    IN
    IF findSaleByBillId(billId) = {} THEN Reject(op, 404, "missing", req)
    ELSE \E existingSale \in findSaleByBillId(billId) :
      IF Given(body.bill_id) /\ body.bill_id # existingSale.bill_id
         /\ findSaleByBillId(body.bill_id) # {}
      THEN Reject(op, 409, "exists", req)
      ELSE IF Given(body.customer_id) /\ body.customer_id # existingSale.customer_id
              /\ findCustomerById(body.customer_id) = {}
      THEN Reject(op, 404, "customer", req)
      ELSE LET availableTotalPrice == calculateSalePrice(billId) IN
        IF adjustmentRejected(parseAdjustment, availableTotalPrice)
        THEN Reject(op, 400, "adjustment", req)
        ELSE LET setAdjustment == IF Truthy(parseAdjustment) THEN parseAdjustment[1]
                                  ELSE existingSale.adjustment
                 updatedData ==
                   [bill_id |-> Or(body.bill_id, existingSale.bill_id),
                    customer_id |-> Or(body.customer_id, existingSale.customer_id),
                    shipping_address |-> Or(body.shipping_address,
                                            existingSale.shipping_address),
                    status |-> Or(body.status, existingSale.status),
                    adjustment |-> setAdjustment,
                    total_amount |-> setTotalPrice(availableTotalPrice, setAdjustment)]
             IN /\ sales' = {IF ilike(s.bill_id, billId) THEN updatedData ELSE s
                             : s \in sales}
                /\ resp' = Response(op, 200, "ok", req, <<>>)
                /\ UNCHANGED <<purchases, purchaseProducts, saleProducts, transfers,
                               transferProducts, inventoryProducts>>

(***************************************************************************)
(* salesController.deleteByBillId                                          *)
(***************************************************************************)
\* a delete statement that removes nothing
DeleteSalesNone(billId) == sales
\* delete from sales where bill_id ilike billId returning * : the rows
\* returned, and the rows left in the table
DeletedSales(billId) == {s \in sales : ilike(s.bill_id, billId)}
DeleteSales(billId) == sales \ DeletedSales(billId)

\* The handler has no statement on the ledger or on the sale lines.
SaleDelete(billId) ==
    LET op == "saleDelete"
        req == [billId |-> billId]
    IN
    IF DeletedSales(billId) = {} THEN Reject(op, 404, "missing", req)
    ELSE /\ sales' = DeleteSales(billId)
         /\ resp' = Response(op, 200, "ok", req, <<>>)
         /\ UNCHANGED <<purchases, purchaseProducts, saleProducts, transfers,
                        transferProducts, inventoryProducts>>

(***************************************************************************)
(* transfersController.create                                              *)
(***************************************************************************)
MrIdMin == 6
MrIdMax == 20
ProductMax == 80

insertTransferSchemaOk(req) ==
    /\ Len(req.trf_id) >= 1
    /\ Len(req.source_inventory) >= 1
    /\ Len(req.destination_inventory) >= 1

insertTransferProductSchemaOk(line) ==
    /\ Len(line.mr_id) >= MrIdMin
    /\ Len(line.mr_id) <= MrIdMax
    /\ Len(line.product) <= ProductMax
    /\ Len(line.product) >= 1
    /\ line.quantity > 0

SourceCandidates(ip, source_inventory, line) ==
    {id \in DOMAIN ip : /\ ilike(ip[id].inventory, source_inventory)
                        /\ ilike(ip[id].mr_id, line.mr_id)
                        /\ ilike(ip[id].product, line.product)
                        /\ ip[id].quantity >= line.quantity}

\* the destination lookup with = in place of ilike
DestinationCandidatesExact(ip, destination_inventory, mr_id, product) ==
    {id \in DOMAIN ip : /\ ip[id].inventory = destination_inventory
                        /\ ip[id].mr_id = mr_id
                        /\ ip[id].product = product}

DestinationCandidates(ip, destination_inventory, mr_id, product) ==
    {id \in DOMAIN ip : /\ ilike(ip[id].inventory, destination_inventory)
                        /\ ilike(ip[id].mr_id, mr_id)
                        /\ ilike(ip[id].product, product)}

\* if (destinationInventoryProductQuery) update ... + quantity else insert
UpsertDestinationNoIncrement(ip, dest, destination_inventory, line) ==
    IF dest # 0 THEN ip
    ELSE Append(ip, [mr_id |-> line.mr_id, inventory |-> destination_inventory,
                     product |-> line.product, quantity |-> line.quantity])
UpsertDestination(ip, dest, destination_inventory, line) ==
    IF dest # 0 THEN AddQuantity(ip, dest, line.quantity)
    ELSE Append(ip, [mr_id |-> line.mr_id, inventory |-> destination_inventory,
                     product |-> line.product, quantity |-> line.quantity])

TransferStep(st, req, line) ==
    IF ~insertTransferProductSchemaOk(line) THEN {[st EXCEPT !.err = "zod"]}
    ELSE LET src == SourceCandidates(st.ip, req.source_inventory, line)
             dst == DestinationCandidates(st.ip, req.destination_inventory,
                                          line.mr_id, line.product)
         IN IF src = {} THEN {[st EXCEPT !.err = "throw"]}
            ELSE {[ip |-> UpsertDestination(AddQuantity(st.ip, s, -line.quantity), d,
                                            req.destination_inventory, line),
                   all |-> Append(st.all, [trf_id |-> req.trf_id, mr_id |-> line.mr_id,
                                           product |-> line.product,
                                           quantity |-> line.quantity]),
                   matched |-> Append(st.matched, s),
                   err |-> "none"]
                  : <<s, d>> \in src \X (IF dst = {} THEN {0} ELSE dst)}

RECURSIVE TransferLoop(_, _, _)
\* for (const product of products) { ... }
TransferLoop(S, req, i) ==
    IF i > Len(req.products) THEN S
    ELSE TransferLoop(UNION {IF st.err # "none" THEN {st}
                             ELSE TransferStep(st, req, req.products[i]) : st \in S},
                      req, i + 1)

\* db.transaction: a throw inside the callback rolls every statement back
transferRollbackLeak(out) ==
    /\ inventoryProducts' = out.ip
    /\ transferProducts' = transferProducts \o out.all
    /\ UNCHANGED transfers
transferRollback(out) == UNCHANGED <<transfers, transferProducts, inventoryProducts>>

TransferCreate(req) ==
    LET op == "transferCreate" IN
    IF Len(req.products) = 0 THEN Reject(op, 400, "products", Keyed(req.trf_id))
    ELSE IF ~insertTransferSchemaOk(req) THEN Reject(op, 400, "schema", Keyed(req.trf_id))
    ELSE IF findTransferByTrfId(req.trf_id) # {} THEN Reject(op, 409, "exists", Keyed(req.trf_id))
    ELSE IF findInventoryByName(req.source_inventory) = {} THEN Reject(op, 404, "source", Keyed(req.trf_id))
    ELSE IF findInventoryByName(req.destination_inventory) = {} THEN Reject(op, 404, "destination", Keyed(req.trf_id))
    ELSE IF \E p \in transfers : p.trf_id = req.trf_id THEN Reject(op, 500, "unique", Keyed(req.trf_id))
    ELSE LET newTransfer == [trf_id |-> req.trf_id,
                             source_inventory |-> req.source_inventory,
                             destination_inventory |-> req.destination_inventory]
         IN \E out \in TransferLoop({[ip |-> inventoryProducts, all |-> <<>>,
                                      matched |-> <<>>, err |-> "none"]}, req, 1) :
              IF out.err # "none"
              THEN /\ resp' = IF out.err = "zod"
                              THEN Response(op, 400, "lineSchema", Keyed(req.trf_id), out.matched)
                              ELSE Response(op, 500, "stock", Keyed(req.trf_id), out.matched)
                   /\ transferRollback(out)
                   /\ UNCHANGED <<purchases, purchaseProducts, sales, saleProducts>>
              ELSE /\ transfers' = transfers \cup {newTransfer}
                   /\ transferProducts' = transferProducts \o out.all
                   /\ inventoryProducts' = out.ip
                   /\ resp' = Response(op, 201, "ok", req, out.matched)
                   /\ UNCHANGED <<purchases, purchaseProducts, sales, saleProducts>>

(***************************************************************************)
(* transfersController.updateByTrfId                                       *)
(***************************************************************************)
\* a rename that also turns the transfer around
RenameTransferReversed(trfId, trf_id) ==
    {IF ilike(t.trf_id, trfId)
     THEN [trf_id |-> trf_id, source_inventory |-> t.destination_inventory,
           destination_inventory |-> t.source_inventory]
     ELSE t : t \in transfers}
\* update transfers set trf_id = .. where trf_id ilike trfId
RenameTransfer(trfId, trf_id) ==
    {IF ilike(t.trf_id, trfId) THEN [t EXCEPT !.trf_id = trf_id] ELSE t
     : t \in transfers}

\* the lines follow their header's trf_id (on update cascade)
RenameTransferLines(trfId, trf_id) ==
    [i \in DOMAIN transferProducts |->
       IF \E t \in transfers : /\ ilike(t.trf_id, trfId)
                               /\ t.trf_id = transferProducts[i].trf_id
       THEN [transferProducts[i] EXCEPT !.trf_id = trf_id]
       ELSE transferProducts[i]]

TransferUpdate(trfId, body) ==
    LET op == "transferUpdate"
        req == [trfId |-> trfId, body |-> body]
        trf_id == body.trf_id
    IN
    IF findTransferByTrfId(trfId) = {} THEN Reject(op, 404, "missing", req)
    ELSE IF Given(trf_id) /\ trf_id # trfId /\ findTransferByTrfId(trf_id) # {}
    THEN Reject(op, 409, "exists", req)
    \* .set({ trf_id: undefined }): the query builder has no value to set
    ELSE IF ~Given(trf_id) THEN Reject(op, 500, "noValues", req)
    \* the unique index on trf_id
    ELSE IF \/ Cardinality(findTransferByTrfId(trfId)) > 1
            \/ \E t \in transfers : t.trf_id = trf_id /\ ~ilike(t.trf_id, trfId)
    THEN Reject(op, 500, "unique", req)
    ELSE /\ transfers' = RenameTransfer(trfId, trf_id)
         /\ transferProducts' = RenameTransferLines(trfId, trf_id)
         /\ resp' = Response(op, 200, "ok", req, <<>>)
         /\ UNCHANGED <<purchases, purchaseProducts, sales, saleProducts,
                        inventoryProducts>>

(***************************************************************************)
(* transfersController.deleteByTrfId                                       *)
(***************************************************************************)
RECURSIVE RejectLines(_, _, _)
\* the lines of a table that a delete ... where key ilike id leaves
RejectLines(lines, key, id) ==
    IF lines = <<>> THEN <<>>
    ELSE IF ilike(Head(lines)[key], id)
         THEN RejectLines(Tail(lines), key, id)
         ELSE <<Head(lines)>> \o RejectLines(Tail(lines), key, id)

\* the loop body for one deleted transfer line
ReverseStep(st, existingTransfer, product) ==
    LET dst == DestinationCandidates(st.ip, existingTransfer.destination_inventory,
                                     product.mr_id, product.product)
    IN IF dst = {} THEN {[st EXCEPT !.err = "throw"]}
       ELSE {LET availableQuantity == st.ip[d].quantity IN
             [ip |-> AddQuantityWhere(
                       AddQuantityWhere(st.ip, existingTransfer.source_inventory,
                                        product.product, product.mr_id, availableQuantity),
                       existingTransfer.destination_inventory,
                       product.product, product.mr_id, -availableQuantity),
              err |-> "none"] : d \in dst}

RECURSIVE ReverseLoop(_, _, _, _)
\* for (const product of allTransferProducts) { ... }
ReverseLoop(S, existingTransfer, lines, i) ==
    IF i > Len(lines) THEN S
    ELSE ReverseLoop(UNION {IF st.err # "none" THEN {st}
                            ELSE ReverseStep(st, existingTransfer, lines[i]) : st \in S},
                     existingTransfer, lines, i + 1)

\* a failed deletion whose statements stay applied
transferDeleteRollbackLeak(out, trf_id) ==
    /\ inventoryProducts' = out.ip
    /\ transferProducts' = RejectLines(transferProducts, "trf_id", trf_id)
    /\ UNCHANGED transfers
\* db.transaction: the TypeError thrown in the callback rolls back the delete
\* of the lines and the ledger updates of the lines already reversed
transferDeleteRollback(out, trf_id) ==
    UNCHANGED <<transfers, transferProducts, inventoryProducts>>

TransferDelete(trfId) ==
    LET op == "transferDelete"
        req == [trfId |-> trfId]
    IN
    IF findTransferByTrfId(trfId) = {} THEN Reject(op, 404, "missing", req)
    ELSE \E existingTransfer \in findTransferByTrfId(trfId) :
         LET allTransferProducts ==
               SelectLines(transferProducts, "trf_id", existingTransfer.trf_id)
         IN \E out \in ReverseLoop({[ip |-> inventoryProducts, err |-> "none"]},
                                   existingTransfer, allTransferProducts, 1) :
              IF out.err = "throw"
              THEN /\ resp' = Response(op, 500, "destinationRow", req, <<>>)
                   /\ transferDeleteRollback(out, existingTransfer.trf_id)
                   /\ UNCHANGED <<purchases, purchaseProducts, sales, saleProducts>>
              ELSE /\ transferProducts' =
                        RejectLines(transferProducts, "trf_id", existingTransfer.trf_id)
                   /\ transfers' = {t \in transfers : ~ilike(t.trf_id, trfId)}
                   /\ inventoryProducts' = out.ip
                   /\ resp' = Response(op, 200, "ok", [trfId |-> trfId,
                                                 transfer |-> existingTransfer,
                                                 lines |-> allTransferProducts], <<>>)
                   /\ UNCHANGED <<purchases, purchaseProducts, sales, saleProducts>>

(***************************************************************************)
(* Requests and specifications.                                            *)
(***************************************************************************)
SeqsUpTo(S, n) == UNION {[1..k -> S] : k \in 0..n}

\* Two requests can be in flight at once.  A transaction in flight keeps
\* its position (pc), the line it is at (i), the rows its selects returned
\* (sel, dst) with the quantity read (seen), and what it has written and
\* not yet committed: changes of quantity by row id (delta), the rows it
\* holds locked (locks), inserted ledger rows (ins) and line rows (lines).
\* base is the committed ledger when the first transaction started.
Procs == {1, 2}
IdleTx ==
    [pc |-> "idle", kind |-> "none", req |-> NoReq, i |-> 1, sel |-> 0, dst |-> 0,
     seen |-> 0, delta |-> <<>>, locks |-> {}, ins |-> <<>>, lines |-> <<>>,
     matched |-> <<>>, dsts |-> <<>>, status |-> 0, overlap |-> FALSE,
     base |-> <<>>]

Init ==
    /\ txs = [p \in Procs |-> IdleTx]
    /\ purchases = {}
    /\ purchaseProducts = <<>>
    /\ sales = {}
    /\ saleProducts = <<>>
    /\ transfers = {}
    /\ transferProducts = <<>>
    /\ inventoryProducts = <<>>
    /\ resp = Response("init", 0, "init", NoReq, <<>>)
    /\ requests = 0

\* One request is served at a time, to completion.
Serve(handler) ==
    /\ requests < MaxRequests
    /\ requests' = requests + 1
    /\ UNCHANGED txs
    /\ handler

(* Requests of the stock workflows: one product, two lots bought at      *)
(* inventory A, transfers and sales between inventories A and B.         *)
StockPurchaseLines ==
    [product : {ProdP}, quantity : {MaxQty}, unit_price : {1}, discount : {Absent}]
StockPurchaseReqs ==
    [mr_id : {MR1, MR2}, vendor : {VendorV}, inventory : {InvA},
     products : SeqsUpTo(StockPurchaseLines, 1)]
StockPurchaseBodies ==
    [mr_id : {Absent}, vendor : {Absent}, inventory : {Absent, InvB},
     adjustment : {<<>>}]
StockSaleLines ==
    [product : {ProdP}, quantity : 0..MaxQty, unit_price : {1}, discount : {Absent}]
StockSaleReqs ==
    [bill_id : {Bill1}, customer_id : {Cust1}, inventory : {InvA, InvB},
     shipping_address : {Addr}, status : {Processing},
     products : SeqsUpTo(StockSaleLines, MaxLines)]
StockTransferLines ==
    [mr_id : {MR1}, product : {ProdP}, quantity : 0..MaxQty]
      \cup [mr_id : {MR2}, product : {ProdP}, quantity : {1}]
StockTransferReqs ==
    [trf_id : {Trf1}, source_inventory : {InvA, InvB},
     destination_inventory : {InvA, InvB},
     products : SeqsUpTo(StockTransferLines, MaxLines)]

PurchaseCreateStock == \E req \in StockPurchaseReqs : Serve(PurchaseCreate(req))
PurchaseUpdateStock ==
    \E mrId \in {MR1, MR2}, body \in StockPurchaseBodies : Serve(PurchaseUpdate(mrId, body))
SaleCreateStock == \E req \in StockSaleReqs : Serve(SaleCreate(req))
TransferCreateStock == \E req \in StockTransferReqs : Serve(TransferCreate(req))
TransferDeleteStock == \E trfId \in {Trf1} : Serve(TransferDelete(trfId))

\* every stock workflow
Next ==
    \/ PurchaseCreateStock
    \/ PurchaseUpdateStock
    \/ SaleCreateStock
    \/ TransferCreateStock
    \/ TransferDeleteStock

Spec == Init /\ [][Next]_vars

\* purchases, relocation and transfers
NextMove ==
    \/ PurchaseCreateStock
    \/ PurchaseUpdateStock
    \/ TransferCreateStock
    \/ TransferDeleteStock

SpecMove == Init /\ [][NextMove]_vars

\* purchases, relocation and sales
SellSaleReqs ==
    [bill_id : {Bill1, Bill2}, customer_id : {Cust1}, inventory : {InvA, InvB},
     shipping_address : {Addr}, status : {Processing},
     products : SeqsUpTo(StockSaleLines, MaxLines)]
SaleCreateSell == \E req \in SellSaleReqs : Serve(SaleCreate(req))

NextSell ==
    \/ PurchaseCreateStock
    \/ PurchaseUpdateStock
    \/ SaleCreateSell

SpecSell == Init /\ [][NextSell]_vars

\* purchases and sales with prices and discounts
PricePurchaseLines ==
    {[product |-> ProdP, quantity |-> MaxQty, unit_price |-> 3, discount |-> Absent],
     [product |-> ProdQ, quantity |-> MaxQty, unit_price |-> 3, discount |-> <<50>>]}
PricePurchaseReqs ==
    [mr_id : {MR1, MR2}, vendor : {VendorV}, inventory : {InvA},
     products : SeqsUpTo(PricePurchaseLines, MaxLines)]
PriceSaleLines ==
    {[product |-> ProdP, quantity |-> MaxQty, unit_price |-> 3, discount |-> Absent],
     [product |-> ProdP, quantity |-> 1, unit_price |-> 3, discount |-> <<50>>]}
PriceSaleReqs ==
    [bill_id : {Bill1}, customer_id : {Cust1}, inventory : {InvA},
     shipping_address : {Addr}, status : {Processing},
     products : SeqsUpTo(PriceSaleLines, MaxLines)]

PurchaseCreatePrice == \E req \in PricePurchaseReqs : Serve(PurchaseCreate(req))
SaleCreatePrice == \E req \in PriceSaleReqs : Serve(SaleCreate(req))

NextPrice ==
    \/ PurchaseCreatePrice
    \/ SaleCreatePrice

SpecPrice == Init /\ [][NextPrice]_vars

\* purchases and sales with adjustments
UnknownName == <<"Z">>
AdjustPurchaseReqs ==
    [mr_id : {MR1, MR2}, vendor : {VendorV}, inventory : {InvA},
     products : {<<[product |-> ProdP, quantity |-> MaxQty, unit_price |-> 3,
                    discount |-> Absent]>>}]
AdjustSaleLines ==
    [product : {ProdP}, quantity : {1}, unit_price : {3}, discount : {Absent, <<50>>}]
AdjustSaleReqs ==
    [bill_id : {Bill1, Bill2}, customer_id : {Cust1}, inventory : {InvA},
     shipping_address : {Addr}, status : {Processing},
     products : {<<line>> : line \in AdjustSaleLines}]
\* parseFloat(adjustment): absent, negative, zero and amounts around the totals
AdjustmentInputs == {<<>>, <<-1>>, <<0>>, <<300>>, <<301>>, <<300 * MaxQty + 1>>}
AdjustPurchaseBodies ==
    [mr_id : {Absent, MR2}, vendor : {Absent, UnknownName}, inventory : {Absent},
     adjustment : AdjustmentInputs]
AdjustSaleBodies ==
    [bill_id : {Absent, Bill2}, customer_id : {Absent, UnknownName},
     shipping_address : {Absent}, status : {Absent}, adjustment : AdjustmentInputs]

PurchaseCreateAdjust == \E req \in AdjustPurchaseReqs : Serve(PurchaseCreate(req))
SaleCreateAdjust == \E req \in AdjustSaleReqs : Serve(SaleCreate(req))
PurchaseUpdateAdjust ==
    \E mrId \in {MR1}, body \in AdjustPurchaseBodies : Serve(PurchaseUpdate(mrId, body))
SaleUpdateAdjust ==
    \E billId \in {Bill1}, body \in AdjustSaleBodies : Serve(SaleUpdate(billId, body))

NextAdjust ==
    \/ PurchaseCreateAdjust
    \/ SaleCreateAdjust
    \/ PurchaseUpdateAdjust
    \/ SaleUpdateAdjust

SpecAdjust == Init /\ [][NextAdjust]_vars

\* creations under keys that repeat, differ in case or hold an escape character
KeyPurchaseReqs ==
    [mr_id : {MR1, MR1Lower, MREscape}, vendor : {VendorV}, inventory : {InvA},
     products : {<<[product |-> ProdP, quantity |-> MaxQty, unit_price |-> 3,
                    discount |-> Absent]>>}]
KeySaleReqs ==
    [bill_id : {Bill1, Bill1Lower, BillEscape}, customer_id : {Cust1},
     inventory : {InvA}, shipping_address : {Addr}, status : {Processing},
     products : {<<[product |-> ProdP, quantity |-> 1, unit_price |-> 3,
                    discount |-> Absent]>>}]
KeyTransferReqs ==
    [trf_id : {Trf1, Trf1Lower, TrfEscape}, source_inventory : {InvA},
     destination_inventory : {InvB},
     products : {<<[mr_id |-> MR1, product |-> ProdP, quantity |-> 1]>>}]

PurchaseCreateKey == \E req \in KeyPurchaseReqs : Serve(PurchaseCreate(req))
SaleCreateKey == \E req \in KeySaleReqs : Serve(SaleCreate(req))
TransferCreateKey == \E req \in KeyTransferReqs : Serve(TransferCreate(req))

NextKey ==
    \/ PurchaseCreateKey
    \/ SaleCreateKey
    \/ TransferCreateKey

SpecKey == Init /\ [][NextKey]_vars

\* purchases and sales that spell inventory and product in either letter case
CasePurchaseReqs ==
    [mr_id : {MR1, MR2}, vendor : {VendorV}, inventory : {InvA, InvALower},
     products : {<<[product |-> p, quantity |-> MaxQty, unit_price |-> 1,
                    discount |-> Absent]>> : p \in {ProdP, ProdPLower}}]
CaseSaleLines ==
    {[product |-> ProdP, quantity |-> 1, unit_price |-> 1, discount |-> Absent],
     [product |-> ProdPLower, quantity |-> MaxQty, unit_price |-> 1, discount |-> Absent]}
CaseSaleReqs ==
    [bill_id : {Bill1}, customer_id : {Cust1}, inventory : {InvA, InvALower},
     shipping_address : {Addr}, status : {Processing},
     products : SeqsUpTo(CaseSaleLines, MaxLines)]

PurchaseCreateCase == \E req \in CasePurchaseReqs : Serve(PurchaseCreate(req))
SaleCreateCase == \E req \in CaseSaleReqs : Serve(SaleCreate(req))

NextCase ==
    \/ PurchaseCreateCase
    \/ SaleCreateCase

SpecCase == Init /\ [][NextCase]_vars

\* the three create workflows, with requests whose later line fails
CreatePurchaseLine(p) ==
    [product |-> p, quantity |-> MaxQty, unit_price |-> 1, discount |-> Absent]
CreatePurchaseReqs ==
    [mr_id : {MR1, MR2}, vendor : {VendorV}, inventory : {InvA},
     products : {<<CreatePurchaseLine(ProdP)>>,
                 <<CreatePurchaseLine(ProdP), CreatePurchaseLine(ProdQ)>>,
                 <<CreatePurchaseLine(ProdP), CreatePurchaseLine(ProdP)>>}]
CreateSaleLine(q) ==
    [product |-> ProdP, quantity |-> q, unit_price |-> 1, discount |-> Absent]
CreateSaleReqs ==
    [bill_id : {Bill1, Bill2}, customer_id : {Cust1}, inventory : {InvA, InvB},
     shipping_address : {Addr}, status : {Processing},
     products : {<<CreateSaleLine(1)>>,
                 <<CreateSaleLine(1), CreateSaleLine(MaxQty)>>,
                 <<CreateSaleLine(1), CreateSaleLine(0)>>}]
CreateTransferLine(q) == [mr_id |-> MR1, product |-> ProdP, quantity |-> q]
CreateTransferReqs ==
    [trf_id : {Trf1, Trf2}, source_inventory : {InvA},
     destination_inventory : {InvB},
     products : {<<CreateTransferLine(1)>>,
                 <<CreateTransferLine(1), CreateTransferLine(MaxQty)>>,
                 <<CreateTransferLine(1), CreateTransferLine(0)>>}]

PurchaseCreateOnly == \E req \in CreatePurchaseReqs : Serve(PurchaseCreate(req))
SaleCreateOnly == \E req \in CreateSaleReqs : Serve(SaleCreate(req))
TransferCreateOnly == \E req \in CreateTransferReqs : Serve(TransferCreate(req))

NextCreate ==
    \/ PurchaseCreateOnly
    \/ SaleCreateOnly
    \/ TransferCreateOnly

SpecCreate == Init /\ [][NextCreate]_vars

\* creations, sale deletion and transfer renaming
EditPurchaseReqs ==
    [mr_id : {MR1}, vendor : {VendorV}, inventory : {InvA},
     products : {<<CreatePurchaseLine(ProdP)>>}]
EditSaleReqs ==
    [bill_id : {Bill1, Bill2}, customer_id : {Cust1}, inventory : {InvA, InvB},
     shipping_address : {Addr}, status : {Processing},
     products : {<<CreateSaleLine(q)>> : q \in 1..MaxQty}]
EditTransferReqs ==
    [trf_id : {Trf1, Trf2}, source_inventory : {InvA},
     destination_inventory : {InvB},
     products : {<<CreateTransferLine(q)>> : q \in 1..MaxQty}]
EditTransferBodies == [trf_id : {Absent, Trf1, Trf2, TrfEscape}]

PurchaseCreateEdit == \E req \in EditPurchaseReqs : Serve(PurchaseCreate(req))
SaleCreateEdit == \E req \in EditSaleReqs : Serve(SaleCreate(req))
TransferCreateEdit == \E req \in EditTransferReqs : Serve(TransferCreate(req))
SaleDeleteEdit == \E billId \in {Bill1, Bill1Lower, Bill2} : Serve(SaleDelete(billId))
TransferUpdateEdit ==
    \E trfId \in {Trf1, Trf1Lower, Trf2}, body \in EditTransferBodies :
       Serve(TransferUpdate(trfId, body))

NextEdit ==
    \/ PurchaseCreateEdit
    \/ SaleCreateEdit
    \/ TransferCreateEdit
    \/ SaleDeleteEdit
    \/ TransferUpdateEdit

SpecEdit == Init /\ [][NextEdit]_vars

\* purchase intake: lines of known and unknown products, valid and invalid,
\* repeated within a request or left behind by a deleted purchase
IntakeLines ==
    {[product |-> p, quantity |-> MaxQty, unit_price |-> 1, discount |-> Absent]
       : p \in {ProdP, ProdQ, UnknownName}}
      \cup {[product |-> ProdP, quantity |-> 0, unit_price |-> 1, discount |-> Absent]}
IntakePurchaseReqs ==
    [mr_id : {MR1, MR2}, vendor : {VendorV}, inventory : {InvA, InvB},
     products : {<<a>> : a \in IntakeLines}
                  \cup {<<a, b>> : a \in IntakeLines, b \in IntakeLines}]

PurchaseCreateIntake == \E req \in IntakePurchaseReqs : Serve(PurchaseCreate(req))
PurchaseDeleteIntake == \E mrId \in {MR1, MR1Lower} : Serve(PurchaseDelete(mrId))

NextIntake ==
    \/ PurchaseCreateIntake
    \/ PurchaseDeleteIntake

SpecIntake == Init /\ [][NextIntake]_vars

\* purchases at either inventory and transfers in every direction, with
\* lines that name one lot twice (in either letter case) or two lots
UpsertPurchaseReqs ==
    [mr_id : {MR1, MR2}, vendor : {VendorV}, inventory : {InvA, InvB},
     products : {<<[product |-> ProdP, quantity |-> MaxQty, unit_price |-> 1,
                    discount |-> Absent]>>}]
UpsertTransferLine(m) == [mr_id |-> m, product |-> ProdP, quantity |-> 1]
UpsertTransferReqs ==
    [trf_id : {Trf1, Trf2}, source_inventory : {InvA, InvB},
     destination_inventory : {InvA, InvB},
     products : {<<UpsertTransferLine(MR1)>>,
                 <<UpsertTransferLine(MR1), UpsertTransferLine(MR1Lower)>>,
                 <<UpsertTransferLine(MR1), UpsertTransferLine(MR2)>>}]

PurchaseCreateUpsert == \E req \in UpsertPurchaseReqs : Serve(PurchaseCreate(req))
TransferCreateUpsert == \E req \in UpsertTransferReqs : Serve(TransferCreate(req))

NextUpsert ==
    \/ PurchaseCreateUpsert
    \/ TransferCreateUpsert

SpecUpsert == Init /\ [][NextUpsert]_vars

\* creations and deletions through keys that contain '%' or '_'
WildPurchaseReqs ==
    [mr_id : {MR1}, vendor : {VendorV}, inventory : {InvA},
     products : {<<[product |-> ProdP, quantity |-> MaxQty, unit_price |-> 1,
                    discount |-> Absent]>>}]
WildSaleReqs ==
    [bill_id : {Bill1, Bill2, BillAny}, customer_id : {Cust1}, inventory : {InvA},
     shipping_address : {Addr}, status : {Processing},
     products : {<<[product |-> ProdP, quantity |-> 1, unit_price |-> 1,
                    discount |-> Absent]>>}]
WildTransferReqs ==
    [trf_id : {Trf1, Trf2}, source_inventory : {InvA}, destination_inventory : {InvB},
     products : {<<[mr_id |-> MR1, product |-> ProdP, quantity |-> 1]>>}]

PurchaseCreateWild == \E req \in WildPurchaseReqs : Serve(PurchaseCreate(req))
SaleCreateWild == \E req \in WildSaleReqs : Serve(SaleCreate(req))
SaleDeleteWild == \E billId \in {Bill1, BillAny, KeyAll} : Serve(SaleDelete(billId))
TransferCreateWild == \E req \in WildTransferReqs : Serve(TransferCreate(req))
TransferDeleteWild == \E trfId \in {Trf1, KeyAll} : Serve(TransferDelete(trfId))

NextWild ==
    \/ PurchaseCreateWild
    \/ SaleCreateWild
    \/ SaleDeleteWild
    \/ TransferCreateWild
    \/ TransferDeleteWild

SpecWild == Init /\ [][NextWild]_vars

\* two lots moved by one transfer, a purchase update that takes one lot's
\* rows away from the destination, and the deletion of the transfer; one
\* request more than MaxRequests, which this sequence needs
UndoRequests == MaxRequests + 1
UndoPurchaseReqs ==
    [mr_id : {MR1, MR2}, vendor : {VendorV}, inventory : {InvA},
     products : {<<[product |-> ProdP, quantity |-> MaxQty, unit_price |-> 1,
                    discount |-> Absent]>>}]
UndoPurchaseBodies ==
    [mr_id : {Absent}, vendor : {Absent}, inventory : {Absent}, adjustment : {Absent}]
UndoTransferReqs ==
    [trf_id : {Trf1}, source_inventory : {InvA}, destination_inventory : {InvB},
     products : {<<UpsertTransferLine(MR1)>>,
                 <<UpsertTransferLine(MR1), UpsertTransferLine(MR2)>>}]

ServeUndo(handler) ==
    /\ requests < UndoRequests
    /\ requests' = requests + 1
    /\ UNCHANGED txs
    /\ handler

PurchaseCreateUndo == \E req \in UndoPurchaseReqs : ServeUndo(PurchaseCreate(req))
PurchaseUpdateUndo ==
    \E mrId \in {MR1, MR2}, body \in UndoPurchaseBodies :
       ServeUndo(PurchaseUpdate(mrId, body))
TransferCreateUndo == \E req \in UndoTransferReqs : ServeUndo(TransferCreate(req))
TransferDeleteUndo == \E trfId \in {Trf1} : ServeUndo(TransferDelete(trfId))

NextUndo ==
    \/ PurchaseCreateUndo
    \/ PurchaseUpdateUndo
    \/ TransferCreateUndo
    \/ TransferDeleteUndo

SpecUndo == Init /\ [][NextUndo]_vars

\* create requests that fail one or several of the checks made before the
\* transaction: no products, an empty header field, a key in use, an
\* unknown vendor, customer or inventory
RejectPurchaseReqs ==
    [mr_id : {MR1, MREscape}, vendor : {VendorV, UnknownName, <<>>},
     inventory : {InvA, UnknownName},
     products : {<<>>, <<[product |-> ProdP, quantity |-> MaxQty, unit_price |-> 1,
                          discount |-> Absent]>>}]
RejectSaleReqs ==
    [bill_id : {Bill1, BillEscape}, customer_id : {Cust1, UnknownName},
     inventory : {InvA, UnknownName}, shipping_address : {Addr, <<>>},
     status : {Processing},
     products : {<<>>, <<[product |-> ProdP, quantity |-> 1, unit_price |-> 1,
                          discount |-> Absent]>>}]
RejectTransferReqs ==
    [trf_id : {Trf1, TrfEscape}, source_inventory : {InvA, UnknownName},
     destination_inventory : {InvB, UnknownName, <<>>},
     products : {<<>>, <<[mr_id |-> MR1, product |-> ProdP, quantity |-> 1]>>}]

PurchaseCreateReject == \E req \in RejectPurchaseReqs : Serve(PurchaseCreate(req))
SaleCreateReject == \E req \in RejectSaleReqs : Serve(SaleCreate(req))
TransferCreateReject == \E req \in RejectTransferReqs : Serve(TransferCreate(req))

NextReject ==
    \/ PurchaseCreateReject
    \/ SaleCreateReject
    \/ TransferCreateReject

SpecReject == Init /\ [][NextReject]_vars

\* purchases, transfers of one line and relocation by purchase update
RelocatePurchaseReqs ==
    [mr_id : {MR1, MR2}, vendor : {VendorV}, inventory : {InvA},
     products : {<<CreatePurchaseLine(ProdP)>>}]
RelocatePurchaseBodies ==
    [mr_id : {Absent}, vendor : {Absent}, inventory : {Absent, InvA, InvB},
     adjustment : {<<>>}]
RelocateTransferReqs ==
    [trf_id : {Trf1, Trf2}, source_inventory : {InvA, InvB},
     destination_inventory : {InvA, InvB},
     products : {<<CreateTransferLine(q)>> : q \in 1..MaxQty}]

PurchaseCreateRelocate ==
    \E req \in RelocatePurchaseReqs : Serve(PurchaseCreate(req))
PurchaseUpdateRelocate ==
    \E mrId \in {MR1, MR1Lower, MR2}, body \in RelocatePurchaseBodies :
       Serve(PurchaseUpdate(mrId, body))
TransferCreateRelocate ==
    \E req \in RelocateTransferReqs : Serve(TransferCreate(req))

NextRelocate ==
    \/ PurchaseCreateRelocate
    \/ PurchaseUpdateRelocate
    \/ TransferCreateRelocate

SpecRelocate == Init /\ [][NextRelocate]_vars

(***************************************************************************)
(* Two create requests in flight at once.  Each runs its statements one    *)
(* at a time inside db.transaction, which is given no isolation level: the *)
(* store's default, read committed.  A statement reads what is committed   *)
(* when it runs, together with its own transaction's writes; an update of  *)
(* a row waits while another transaction in flight has written that row,   *)
(* and then works on the row as that transaction left it.                  *)
(***************************************************************************)
Other(p) == CHOOSE q \in Procs : q # p
InFlight(p) == txs[p].pc \notin {"idle", "done"}

DeltaAt(d, id) == IF id \in DOMAIN d THEN d[id] ELSE 0
SetDelta(d, id, n) ==
    [k \in 1..(IF id > Len(d) THEN id ELSE Len(d)) |->
       IF k = id THEN n ELSE DeltaAt(d, k)]

\* what a statement of transaction p reads: the committed rows with p's own
\* changes, followed by the rows p inserted
ViewLedger(p) ==
    [id \in DOMAIN inventoryProducts |->
       [inventoryProducts[id] EXCEPT !.quantity = @ + DeltaAt(txs[p].delta, id)]]
    \o txs[p].ins

\* A row of the view as a reference that stays good while others commit:
\* the id of a committed row, or minus the position of an inserted row.
RowRef(id) ==
    IF id > Len(inventoryProducts) THEN Len(inventoryProducts) - id ELSE id
RefRow(p, r) == IF r > 0 THEN ViewLedger(p)[r] ELSE txs[p].ins[-r]

\* an update that writes back the quantity the select had read
SetQuantityFromRead(current, seen, n) == seen + n
\* set quantity = quantity + n: the store computes it from the row as it is
\* when the update runs, not from the value an earlier select returned
SetQuantity(current, seen, n) == current + n

\* transaction tx after it wrote quantity q to row r
WriteRow(tx, r, q) ==
    IF r > 0
    THEN [tx EXCEPT !.delta = SetDelta(@, r, q - inventoryProducts[r].quantity),
                    !.locks = @ \cup {r}]
    ELSE [tx EXCEPT !.ins[-r].quantity = q]

LockedByOther(p, r) == r > 0 /\ r \in txs[Other(p)].locks

\* p's update waits for a row the other transaction has written
Blocked(p) ==
    \/ txs[p].pc = "update" /\ LockedByOther(p, txs[p].sel)
    \/ txs[p].pc = "upsert" /\ LockedByOther(p, txs[p].dst)

OpOf(tx) == IF tx.kind = "sale" THEN "saleCreate" ELSE "transferCreate"
KeyOf(tx) == IF tx.kind = "sale" THEN tx.req.bill_id ELSE tx.req.trf_id

\* the request is answered: what it wrote and did not commit is gone
Finished(p, status) ==
    [txs EXCEPT ![p] = [@ EXCEPT !.pc = "done", !.status = status, !.sel = 0,
                                 !.dst = 0, !.seen = 0, !.delta = <<>>,
                                 !.locks = {}, !.ins = <<>>, !.lines = <<>>]]

Abort(p, op, status, reason, r, matched) ==
    /\ txs' = Finished(p, status)
    /\ resp' = Response(op, status, reason, r, matched)
    /\ UNCHANGED <<tables, requests>>

Step(p, tx) ==
    /\ txs' = [txs EXCEPT ![p] = tx]
    /\ UNCHANGED <<tables, resp, requests>>

\* requests of the concurrent creations: two lots of one product bought at
\* inventory A, sold at A or B and moved from A to B
RacePurchaseReqs ==
    [mr_id : {MR1, MR2}, vendor : {VendorV}, inventory : {InvA},
     products : {<<CreatePurchaseLine(ProdP)>>}]
RaceSaleReqs ==
    [bill_id : {Bill1, Bill2}, customer_id : {Cust1}, inventory : {InvA, InvB},
     shipping_address : {Addr}, status : {Processing},
     products : {<<CreateSaleLine(1)>>,
                 <<CreateSaleLine(MaxQty), CreateSaleLine(MaxQty)>>}]
\* a transfer served before the two requests arrive
RaceEarlierTransferReqs ==
    [trf_id : {Trf2}, source_inventory : {InvA}, destination_inventory : {InvB},
     products : {<<CreateTransferLine(1)>>}]
RaceTransferReqs ==
    [trf_id : {Trf1, Trf2}, source_inventory : {InvA}, destination_inventory : {InvB},
     products : {<<CreateTransferLine(1)>>,
                 <<CreateTransferLine(1), CreateTransferLine(1)>>}]

\* the checks a create handler makes before it opens its transaction
SalePrecheck(req) ==
    IF Len(req.products) = 0 THEN <<400, "products">>
    ELSE IF ~insertSaleSchemaOk(req) THEN <<400, "schema">>
    ELSE IF findSaleByBillId(req.bill_id) # {} THEN <<409, "exists">>
    ELSE IF findCustomerById(req.customer_id) = {} THEN <<404, "customer">>
    ELSE IF findInventoryByName(req.inventory) = {} THEN <<404, "inventory">>
    ELSE <<0, "ok">>

TransferPrecheck(req) ==
    IF Len(req.products) = 0 THEN <<400, "products">>
    ELSE IF ~insertTransferSchemaOk(req) THEN <<400, "schema">>
    ELSE IF findTransferByTrfId(req.trf_id) # {} THEN <<409, "exists">>
    ELSE IF findInventoryByName(req.source_inventory) = {} THEN <<404, "source">>
    ELSE IF findInventoryByName(req.destination_inventory) = {}
         THEN <<404, "destination">>
    ELSE <<0, "ok">>

\* Processes are numbered in the order in which their requests arrive.
Start(p, kind, req, key, pre) ==
    /\ txs[p].pc = "idle"
    /\ p = 1 \/ txs[1].pc # "idle"
    /\ LET started == [IdleTx EXCEPT
                         !.kind = kind, !.req = req,
                         !.overlap = InFlight(Other(p)),
                         !.base = IF txs[Other(p)].pc # "idle"
                                  THEN txs[Other(p)].base ELSE inventoryProducts]
       IN IF pre[1] # 0
          THEN /\ txs' = [txs EXCEPT ![p] = [started EXCEPT !.pc = "done",
                                                            !.status = pre[1]]]
               /\ resp' = Response(OpOf(started), pre[1], pre[2], Keyed(key), <<>>)
               /\ UNCHANGED <<tables, requests>>
          ELSE Step(p, [started EXCEPT !.pc = "begin"])

SaleStart(p) ==
    \E req \in RaceSaleReqs : Start(p, "sale", req, req.bill_id, SalePrecheck(req))
TransferStart(p) ==
    \E req \in RaceTransferReqs :
       Start(p, "transfer", req, req.trf_id, TransferPrecheck(req))

\* a business key without its unique index
UniqueViolationNever(key, committed) == FALSE
\* bill_id: varchar(...).unique(): an insert of a committed key fails
UniqueViolation(key, committed) == key \in committed

\* tx.insert(sales | transfers): the header row.  The unique index makes the
\* insert wait for a transaction in flight that inserted the same key.
TxBegin(p) ==
    /\ txs[p].pc = "begin"
    /\ LET tx == txs[p]
           other == txs[Other(p)]
           committed == IF tx.kind = "sale" THEN {h.bill_id : h \in sales}
                        ELSE {h.trf_id : h \in transfers}
       IN /\ ~(/\ other.pc \notin {"idle", "begin", "done"}
               /\ other.kind = tx.kind
               /\ KeyOf(other) = KeyOf(tx))
          /\ IF UniqueViolation(KeyOf(tx), committed)
             THEN Abort(p, OpOf(tx), 500, "unique", Keyed(KeyOf(tx)), <<>>)
             ELSE Step(p, [tx EXCEPT !.pc = "select"])

\* the stock select of a sale line
SaleSelect(p) ==
    /\ txs[p].pc = "select"
    /\ txs[p].kind = "sale"
    /\ LET tx == txs[p]
           req == tx.req
           line == req.products[tx.i]
           cand == SaleCandidates(ViewLedger(p), req.inventory, line)
       IN IF ~insertSaleProductSchemaOk(line)
          THEN Abort(p, "saleCreate", 400, "lineSchema", Keyed(req.bill_id), tx.matched)
          ELSE IF cand = {}
          THEN Abort(p, "saleCreate", 500, "stock",
                     StockMiss(req.bill_id, req.inventory, line), tx.matched)
          ELSE \E id \in cand :
                 Step(p, [tx EXCEPT !.sel = RowRef(id),
                                    !.seen = ViewLedger(p)[id].quantity,
                                    !.pc = "update"])

\* the source select of a transfer line
TransferSelect(p) ==
    /\ txs[p].pc = "select"
    /\ txs[p].kind = "transfer"
    /\ LET tx == txs[p]
           req == tx.req
           line == req.products[tx.i]
           src == SourceCandidates(ViewLedger(p), req.source_inventory, line)
       IN IF ~insertTransferProductSchemaOk(line)
          THEN Abort(p, "transferCreate", 400, "lineSchema", Keyed(req.trf_id), tx.matched)
          ELSE IF src = {}
          THEN Abort(p, "transferCreate", 500, "stock", Keyed(req.trf_id), tx.matched)
          ELSE \E id \in src :
                 Step(p, [tx EXCEPT !.sel = RowRef(id),
                                    !.seen = ViewLedger(p)[id].quantity,
                                    !.pc = "selectDest"])

\* the destination select of a transfer line
TransferSelectDest(p) ==
    /\ txs[p].pc = "selectDest"
    /\ LET tx == txs[p]
           req == tx.req
           line == req.products[tx.i]
           dst == DestinationCandidates(ViewLedger(p), req.destination_inventory,
                                        line.mr_id, line.product)
       IN \E d \in (IF dst = {} THEN {0} ELSE {RowRef(id) : id \in dst}) :
            Step(p, [tx EXCEPT !.dst = d, !.pc = "update"])

\* update inventoryProducts set quantity = quantity - n where id = ..
\* (a sale inserts its line row just before)
TxDecrement(p) ==
    /\ txs[p].pc = "update"
    /\ ~LockedByOther(p, txs[p].sel)
    /\ LET tx == txs[p]
           req == tx.req
           line == req.products[tx.i]
           row == RefRow(p, tx.sel)
           wrote == [WriteRow(tx, tx.sel,
                              SetQuantity(row.quantity, tx.seen, -line.quantity))
                     EXCEPT !.matched = Append(@, tx.sel)]
       IN Step(p, IF tx.kind = "sale"
                  THEN [wrote EXCEPT
                          !.lines = Append(@,
                             [mr_id |-> row.mr_id, inventory |-> req.inventory,
                              bill_id |-> req.bill_id, product |-> line.product,
                              quantity |-> line.quantity,
                              unit_price |-> line.unit_price,
                              discount |-> parseDiscount(line.discount),
                              total_price |-> productTotalPrice(line.quantity,
                                                 line.unit_price, line.discount)]),
                          !.i = @ + 1,
                          !.pc = IF tx.i = Len(req.products) THEN "commit"
                                 ELSE "select"]
                  ELSE [wrote EXCEPT !.pc = "upsert"])

\* if (destinationInventoryProductQuery) update ... + quantity else insert,
\* then the insert of the transfer line
TransferUpsert(p) ==
    /\ txs[p].pc = "upsert"
    /\ ~LockedByOther(p, txs[p].dst)
    /\ LET tx == txs[p]
           req == tx.req
           line == req.products[tx.i]
           wrote == IF tx.dst = 0
                    THEN [tx EXCEPT !.ins = Append(@,
                            [mr_id |-> line.mr_id,
                             inventory |-> req.destination_inventory,
                             product |-> line.product, quantity |-> line.quantity])]
                    ELSE WriteRow(tx, tx.dst,
                                  SetQuantity(RefRow(p, tx.dst).quantity,
                                              RefRow(p, tx.dst).quantity,
                                              line.quantity))
       IN Step(p, [wrote EXCEPT
                     !.dsts = Append(@, tx.dst),
                     !.lines = Append(@, [trf_id |-> req.trf_id, mr_id |-> line.mr_id,
                                          product |-> line.product,
                                          quantity |-> line.quantity]),
                     !.i = @ + 1,
                     !.pc = IF tx.i = Len(req.products) THEN "commit" ELSE "select"])

\* the end of the callback: a sale sets its header's total, then the
\* transaction commits and its writes become what everyone reads
TxCommit(p) ==
    /\ txs[p].pc = "commit"
    /\ LET tx == txs[p]
           req == tx.req
       IN /\ inventoryProducts' = ViewLedger(p)
          /\ IF tx.kind = "sale"
             THEN LET header == [bill_id |-> req.bill_id,
                                 customer_id |-> req.customer_id,
                                 shipping_address |-> req.shipping_address,
                                 status |-> req.status, adjustment |-> 0,
                                 total_amount |-> 0]
                  IN /\ sales' = {IF ilike(s.bill_id, req.bill_id)
                                  THEN [s EXCEPT !.total_amount = SumTotalPrice(tx.lines)]
                                  ELSE s : s \in sales \cup {header}}
                     /\ saleProducts' = saleProducts \o tx.lines
                     /\ UNCHANGED <<transfers, transferProducts>>
             ELSE /\ transfers' = transfers \cup
                       {[trf_id |-> req.trf_id,
                         source_inventory |-> req.source_inventory,
                         destination_inventory |-> req.destination_inventory]}
                  /\ transferProducts' = transferProducts \o tx.lines
                  /\ UNCHANGED <<sales, saleProducts>>
          /\ resp' = Response(OpOf(tx), 201, "ok", req, tx.matched)
          /\ txs' = Finished(p, 201)
          /\ UNCHANGED <<purchases, purchaseProducts, requests>>

\* two transactions each waiting for a row the other wrote: the store ends
\* one of them with an error
TxDeadlock(p) ==
    /\ Blocked(p)
    /\ Blocked(Other(p))
    /\ Abort(p, OpOf(txs[p]), 500, "deadlock", Keyed(KeyOf(txs[p])), txs[p].matched)

PurchaseCreateRace ==
    /\ \A p \in Procs : txs[p].pc = "idle"
    /\ \E req \in RacePurchaseReqs : Serve(PurchaseCreate(req))

TransferCreateRace ==
    /\ \A p \in Procs : txs[p].pc = "idle"
    /\ \E req \in RaceEarlierTransferReqs : Serve(TransferCreate(req))

NextRace ==
    \/ PurchaseCreateRace
    \/ TransferCreateRace
    \/ \E p \in Procs : SaleStart(p)
    \/ \E p \in Procs : TransferStart(p)
    \/ \E p \in Procs : TxBegin(p)
    \/ \E p \in Procs : SaleSelect(p)
    \/ \E p \in Procs : TransferSelect(p)
    \/ \E p \in Procs : TransferSelectDest(p)
    \/ \E p \in Procs : TxDecrement(p)
    \/ \E p \in Procs : TransferUpsert(p)
    \/ \E p \in Procs : TxCommit(p)
    \/ \E p \in Procs : TxDeadlock(p)

SpecRace == Init /\ [][NextRace]_vars

(***************************************************************************)
(* purchasesController.updateByMrId statement by statement: the two        *)
(* updates run on db, outside any transaction, so each commits on its own  *)
(* and other requests are served between them.                             *)
(***************************************************************************)
SplitPurchaseReqs ==
    [mr_id : {MR1, MR2}, vendor : {VendorV}, inventory : {InvA},
     products : {<<[product |-> ProdP, quantity |-> MaxQty, unit_price |-> 1,
                    discount |-> Absent]>>}]
SplitPurchaseBodies ==
    [mr_id : {Absent}, vendor : {Absent}, inventory : {Absent, InvA, InvB},
     adjustment : {Absent, <<1>>}]

\* the lookups and checks, then db.update(purchases)
PurchaseUpdateHeader(p) ==
    /\ txs[p].pc \in {"idle", "done"}
    /\ requests < MaxRequests
    /\ requests' = requests + 1
    /\ \E mrId \in {MR1}, body \in SplitPurchaseBodies :
         \E plan \in PurchaseUpdatePlan(mrId, body) :
           LET started == [IdleTx EXCEPT
                             !.kind = "purchaseUpdate",
                             !.req = [mrId |-> mrId, body |-> body,
                                      existingPurchase |-> plan.existingPurchase,
                                      updatedData |-> plan.updatedData],
                             !.base = inventoryProducts]
           IN IF plan.status # 200
              THEN /\ txs' = [txs EXCEPT ![p] = [started EXCEPT !.pc = "done",
                                                                !.status = plan.status]]
                   /\ resp' = Response("purchaseUpdate", plan.status, plan.reason,
                                       [mrId |-> mrId, body |-> body], <<>>)
                   /\ UNCHANGED tables
              ELSE /\ purchases' = UpdatePurchaseHeader(mrId, plan.updatedData)
                   /\ txs' = [txs EXCEPT ![p] = [started EXCEPT !.pc = "relocate"]]
                   /\ UNCHANGED <<purchaseProducts, sales, saleProducts, transfers,
                                  transferProducts, inventoryProducts, resp>>

\* db.update(inventoryProducts), then res.status(200)
PurchaseUpdateLedger(p) ==
    /\ txs[p].pc = "relocate"
    /\ LET r == txs[p].req IN
       /\ inventoryProducts' =
            RelocateLot(inventoryProducts, r.mrId, r.updatedData.inventory)
       /\ resp' = Response("purchaseUpdate", 200, "ok",
                           [mrId |-> r.mrId, body |-> r.body], <<>>)
    /\ txs' = Finished(p, 200)
    /\ UNCHANGED <<purchases, purchaseProducts, sales, saleProducts, transfers,
                   transferProducts, requests>>

\* db.update(inventoryProducts) rejects (the store ends the statement with an
\* error): the catch block answers 500 and the first statement stays committed
PurchaseUpdateLedgerFails(p) ==
    /\ txs[p].pc = "relocate"
    /\ LET r == txs[p].req IN
       resp' = Response("purchaseUpdate", 500, "statement",
                        [mrId |-> r.mrId, body |-> r.body], <<>>)
    /\ txs' = Finished(p, 500)
    /\ UNCHANGED <<tables, requests>>

\* another request served in between
PurchaseCreateSplit == \E req \in SplitPurchaseReqs : Serve(PurchaseCreate(req))

NextSplit ==
    \/ PurchaseCreateSplit
    \/ PurchaseUpdateHeader(1)
    \/ PurchaseUpdateLedger(1)
    \/ PurchaseUpdateLedgerFails(1)

SpecSplit == Init /\ [][NextSplit]_vars

(***************************************************************************)
(* Properties.                                                             *)
(***************************************************************************)
Lots == {MR1, MR2}

SameName(a, b) == ToLower(a) = ToLower(b)

RECURSIVE SumRows(_, _, _, _, _)
\* sum of the quantities of rows i.. of the ledger that are lot m, product p
\* (names compared ignoring case) at one of the inventories invs
SumRows(ip, i, invs, m, p) ==
    IF i > Len(ip) THEN 0
    ELSE (IF /\ SameName(ip[i].mr_id, m)
             /\ SameName(ip[i].product, p)
             /\ \E inv \in invs : SameName(ip[i].inventory, inv)
          THEN ip[i].quantity ELSE 0) + SumRows(ip, i + 1, invs, m, p)

\* system-wide quantity of (mr_id, product)
Total(ip, m, p) == SumRows(ip, 1, inventories, m, p)
\* quantity of (mr_id, product) at one inventory
TotalAt(ip, inv, m, p) == SumRows(ip, 1, {inv}, m, p)

Served(op, status) == resp.op = op /\ resp.status = status

\* C1: every stock-ledger row has quantity >= 0 in every state reached by
\* purchase creations and updates, sale creations, transfer creations and
\* transfer deletions.
C1_QuantityNonNegative ==
    \A i \in DOMAIN inventoryProducts : inventoryProducts[i].quantity >= 0

\* C2: the ledger holds at most one row for each (mr_id, inventory, product).
C2_LedgerRowsUnique ==
    \A i, j \in DOMAIN inventoryProducts :
        (/\ inventoryProducts[i].mr_id = inventoryProducts[j].mr_id
         /\ inventoryProducts[i].inventory = inventoryProducts[j].inventory
         /\ inventoryProducts[i].product = inventoryProducts[j].product) => i = j

\* C3: a successful transfer creation leaves, for every (mr_id, product), the
\* sum of ledger quantities over all inventories unchanged.
C3_TransferCreateConserves ==
    [][(resp'.op = "transferCreate" /\ resp'.status = 201) =>
         \A m \in Lots, p \in products :
            Total(inventoryProducts', m, p) = Total(inventoryProducts, m, p)]_vars

\* C3 witness: a committed transfer from an inventory to itself whose two
\* lines name the same lot and product.
C3_Witness ==
    /\ Served("transferCreate", 201)
    /\ SameName(resp.req.source_inventory, resp.req.destination_inventory)
    /\ Len(resp.req.products) = 2
    /\ resp.req.products[1].mr_id = resp.req.products[2].mr_id
    /\ resp.req.products[1].product = resp.req.products[2].product

\* C4: a successful transfer deletion leaves, for every (mr_id, product), the
\* sum of ledger quantities over all inventories unchanged, also after the
\* lot's purchase was relocated by a purchase update.
C4_TransferDeleteConserves ==
    [][(resp'.op = "transferDelete" /\ resp'.status = 200) =>
         \A m \in Lots, p \in products :
            Total(inventoryProducts', m, p) = Total(inventoryProducts, m, p)]_vars

\* C5: deleting a transfer from inventory A to another inventory B moves, for
\* each of its lines, the current quantity at B back to A: afterwards B holds
\* 0, A holds its previous quantity plus B's previous quantity, and the
\* transfer header and its lines no longer exist.
C5_TransferDeleteMovesBack ==
    [][(resp'.op = "transferDelete" /\ resp'.status = 200) =>
         LET t == resp'.req.transfer
             lines == resp'.req.lines
             A == t.source_inventory
             B == t.destination_inventory
         IN ~SameName(A, B) =>
              /\ \A i \in DOMAIN lines :
                   LET m == lines[i].mr_id
                       p == lines[i].product
                   IN /\ TotalAt(inventoryProducts', B, m, p) = 0
                      /\ TotalAt(inventoryProducts', A, m, p) =
                           TotalAt(inventoryProducts, A, m, p)
                             + TotalAt(inventoryProducts, B, m, p)
              /\ t \notin transfers'
              /\ \A i \in DOMAIN transferProducts' :
                   transferProducts'[i].trf_id # t.trf_id]_vars

RECURSIVE MatchedSum(_, _, _, _)
\* the quantity the first n lines of a request took from ledger row id
MatchedSum(lines, matched, id, n) ==
    IF n = 0 THEN 0
    ELSE (IF matched[n] = id THEN lines[n].quantity ELSE 0)
         + MatchedSum(lines, matched, id, n - 1)

\* C6: after a successful sale creation every ledger row has its pre-commit
\* quantity minus the sum of the quantities of the lines matched to it; rows
\* matched by no line are unchanged.
C6_SaleDecrements ==
    [][(resp'.op = "saleCreate" /\ resp'.status = 201) =>
         LET lines == resp'.req.products
             matched == resp'.matched
         IN /\ Len(matched) = Len(lines)
            /\ DOMAIN inventoryProducts' = DOMAIN inventoryProducts
            /\ \A id \in DOMAIN inventoryProducts :
                 inventoryProducts'[id] =
                   [inventoryProducts[id] EXCEPT
                      !.quantity = @ - MatchedSum(lines, matched, id, Len(lines))]]_vars

\* C6 witness: a committed sale whose two lines were matched to the same
\* ledger row, while another row was matched by no line.
C6_Witness ==
    /\ Served("saleCreate", 201)
    /\ Len(resp.matched) = 2
    /\ resp.matched[1] = resp.matched[2]
    /\ Len(inventoryProducts) >= 2

\* C7: a sale creation in which some line finds no ledger row with enough
\* quantity persists nothing: sales, saleProducts and inventoryProducts keep
\* their pre-request contents; a sale is committed only if every line found,
\* when it was matched, a row holding at least its quantity.
C7_SaleAllOrNothing ==
    [][resp'.op = "saleCreate" =>
         /\ resp'.status # 201 => UNCHANGED <<sales, saleProducts, inventoryProducts>>
         /\ resp'.status = 201 =>
              LET lines == resp'.req.products
                  matched == resp'.matched
              IN \A n \in DOMAIN lines :
                   /\ SameName(inventoryProducts[matched[n]].inventory,
                               resp'.req.inventory)
                   /\ inventoryProducts[matched[n]].quantity
                        - MatchedSum(lines, matched, matched[n], n - 1)
                      >= lines[n].quantity]_vars

\* C7 witness: a sale creation that failed for lack of stock after an
\* earlier line of the same request had been matched and decremented.
C7_Witness ==
    /\ Served("saleCreate", 500)
    /\ resp.reason = "stock"
    /\ Len(resp.matched) >= 1

\* C8: a transfer creation in which a line fails (schema, or no source row
\* with enough quantity) persists nothing; a transfer is committed only with
\* every line valid, supplied from a sufficient source row, and recorded.
C8_TransferAllOrNothing ==
    [][resp'.op = "transferCreate" =>
         /\ resp'.status # 201 =>
              UNCHANGED <<transfers, transferProducts, inventoryProducts>>
         /\ resp'.status = 201 =>
              LET lines == resp'.req.products
                  matched == resp'.matched
              IN /\ \A n \in DOMAIN lines :
                      /\ Len(lines[n].mr_id) >= MrIdMin
                      /\ lines[n].quantity > 0
                      /\ SameName(inventoryProducts[matched[n]].inventory,
                                  resp'.req.source_inventory)
                      /\ SameName(inventoryProducts[matched[n]].mr_id, lines[n].mr_id)
                      /\ Total(inventoryProducts, lines[n].mr_id, lines[n].product)
                           >= lines[n].quantity
                 /\ transferProducts' = transferProducts \o
                      [n \in DOMAIN lines |->
                         [trf_id |-> resp'.req.trf_id, mr_id |-> lines[n].mr_id,
                          product |-> lines[n].product, quantity |-> lines[n].quantity]]
                 /\ \E t \in transfers' : t.trf_id = resp'.req.trf_id]_vars

\* C8 witness: a transfer creation that failed on a later line after an
\* earlier line had decremented its source row.
C8_Witness ==
    /\ resp.op = "transferCreate"
    /\ resp.reason \in {"stock", "lineSchema"}
    /\ Len(resp.matched) >= 1

\* the line total and the header total as the specification states them
ExpectedLineTotal(line) ==
    LET base == 100 * line.quantity * line.unit_price
        pct == IF line.discount = Absent THEN 0 ELSE line.discount[1]
    IN base - (base \div 100) * pct

RECURSIVE ExpectedTotal(_)
ExpectedTotal(lines) ==
    IF lines = <<>> THEN 0 ELSE ExpectedLineTotal(Head(lines)) + ExpectedTotal(Tail(lines))

\* C9: the header total persisted by a successful purchase or sale creation
\* is the sum over the request's lines of
\* quantity*unit_price - quantity*unit_price*discount/100, discount 0 if absent.
C9_HeaderTotals ==
    [][/\ (resp'.op = "purchaseCreate" /\ resp'.status = 201) =>
            /\ \E h \in purchases' : h.mr_id = resp'.req.mr_id
            /\ \A h \in purchases' :
                 h.mr_id = resp'.req.mr_id =>
                   h.total_price = ExpectedTotal(resp'.req.products)
       /\ (resp'.op = "saleCreate" /\ resp'.status = 201) =>
            /\ \E h \in sales' : h.bill_id = resp'.req.bill_id
            /\ \A h \in sales' :
                 h.bill_id = resp'.req.bill_id =>
                   h.total_amount = ExpectedTotal(resp'.req.products)]_vars

\* C9 witness: a committed sale of two lines, one discounted and one not.
C9_Witness ==
    /\ Served("saleCreate", 201)
    /\ Len(resp.req.products) = 2
    /\ resp.req.products[1].discount # resp.req.products[2].discount

RECURSIVE HeaderLinesTotal(_, _, _)
\* the total computed from the lines currently stored for a header
HeaderLinesTotal(lines, key, id) ==
    IF lines = <<>> THEN 0
    ELSE (IF SameName(Head(lines)[key], id)
          THEN 100 * Head(lines).quantity * Head(lines).unit_price
                 - Head(lines).quantity * Head(lines).unit_price * Head(lines).discount
          ELSE 0) + HeaderLinesTotal(Tail(lines), key, id)

OutOfRange(adjustment, total) ==
    adjustment # <<>> /\ (adjustment[1] < 0 \/ adjustment[1] > total)

\* the update just served named an existing header and an adjustment outside
\* [0, total of the header's current lines]
AdjustmentCase ==
    \/ /\ resp'.op = "purchaseUpdate"
       /\ \E h \in purchases : SameName(h.mr_id, resp'.req.mrId)
       /\ OutOfRange(resp'.req.body.adjustment,
                     HeaderLinesTotal(purchaseProducts, "mr_id", resp'.req.mrId))
    \/ /\ resp'.op = "saleUpdate"
       /\ \E h \in sales : SameName(h.bill_id, resp'.req.billId)
       /\ OutOfRange(resp'.req.body.adjustment,
                     HeaderLinesTotal(saleProducts, "bill_id", resp'.req.billId))

\* the update also names a new business key that another header already has
NewKeyTaken ==
    \/ /\ resp'.op = "purchaseUpdate"
       /\ Given(resp'.req.body.mr_id)
       /\ \A h \in purchases :
            SameName(h.mr_id, resp'.req.mrId) => h.mr_id # resp'.req.body.mr_id
       /\ \E h \in purchases : SameName(h.mr_id, resp'.req.body.mr_id)
    \/ /\ resp'.op = "saleUpdate"
       /\ Given(resp'.req.body.bill_id)
       /\ \A h \in sales :
            SameName(h.bill_id, resp'.req.billId) => h.bill_id # resp'.req.body.bill_id
       /\ \E h \in sales : SameName(h.bill_id, resp'.req.body.bill_id)

\* the update also names a vendor, inventory or customer that does not exist
UnknownReference ==
    \/ /\ resp'.op = "purchaseUpdate"
       /\ \/ /\ Given(resp'.req.body.vendor)
             /\ \A v \in vendors : ~SameName(v, resp'.req.body.vendor)
          \/ /\ Given(resp'.req.body.inventory)
             /\ \A inv \in inventories : ~SameName(inv, resp'.req.body.inventory)
    \/ /\ resp'.op = "saleUpdate"
       /\ Given(resp'.req.body.customer_id)
       /\ resp'.req.body.customer_id \notin customers

InRange(adjustment, total) ==
    adjustment # <<>> /\ 0 <= adjustment[1] /\ adjustment[1] <= total

\* C11: a sale or purchase update that supplies an adjustment a with
\* 0 <= a <= computedTotal (the sum of the header's current line totals), and
\* that passes the key and reference checks, succeeds whatever adjustment was
\* stored before, and the header afterwards stores adjustment = a and
\* total = computedTotal - a, also for a = 0 and a = computedTotal.
C11_AdjustmentApplied ==
    [][/\ (/\ resp'.op = "purchaseUpdate"
           /\ \E h \in purchases : SameName(h.mr_id, resp'.req.mrId)
           /\ InRange(resp'.req.body.adjustment,
                      HeaderLinesTotal(purchaseProducts, "mr_id", resp'.req.mrId))
           /\ ~NewKeyTaken /\ ~UnknownReference) =>
            LET a == resp'.req.body.adjustment[1]
                total == HeaderLinesTotal(purchaseProducts, "mr_id", resp'.req.mrId)
                key == IF Given(resp'.req.body.mr_id) THEN resp'.req.body.mr_id
                       ELSE resp'.req.mrId
            IN /\ resp'.status = 200
               /\ \E h \in purchases' : SameName(h.mr_id, key)
               /\ \A h \in purchases' :
                    SameName(h.mr_id, key) =>
                      h.adjustment = a /\ h.total_price = total - a
       /\ (/\ resp'.op = "saleUpdate"
           /\ \E h \in sales : SameName(h.bill_id, resp'.req.billId)
           /\ InRange(resp'.req.body.adjustment,
                      HeaderLinesTotal(saleProducts, "bill_id", resp'.req.billId))
           /\ ~NewKeyTaken /\ ~UnknownReference) =>
            LET a == resp'.req.body.adjustment[1]
                total == HeaderLinesTotal(saleProducts, "bill_id", resp'.req.billId)
                key == IF Given(resp'.req.body.bill_id) THEN resp'.req.body.bill_id
                       ELSE resp'.req.billId
            IN /\ resp'.status = 200
               /\ \E h \in sales' : SameName(h.bill_id, key)
               /\ \A h \in sales' :
                    SameName(h.bill_id, key) =>
                      h.adjustment = a /\ h.total_amount = total - a]_vars

\* the business key a creation request named
CreateKey(r) ==
    IF "key" \in DOMAIN r.req THEN r.req.key
    ELSE IF r.op = "purchaseCreate" THEN r.req.mr_id
    ELSE IF r.op = "saleCreate" THEN r.req.bill_id
    ELSE r.req.trf_id

\* the creation just served was well-formed (lines present, header schema valid)
WellFormedCreate(op) ==
    resp'.op = op /\ resp'.reason \notin {"products", "schema"}

\* C12: a well-formed sale creation whose bill_id already belongs to an
\* existing sale returns 409 and writes nothing to sales, saleProducts or
\* inventoryProducts; likewise a purchase creation with an existing mr_id and
\* a transfer creation with an existing trf_id.
C12_DuplicateKeyConflict ==
    [][/\ (/\ WellFormedCreate("saleCreate")
           /\ \E h \in sales : SameName(h.bill_id, CreateKey(resp'))) =>
            /\ resp'.status = 409
            /\ UNCHANGED <<sales, saleProducts, inventoryProducts>>
       /\ (/\ WellFormedCreate("purchaseCreate")
           /\ \E h \in purchases : SameName(h.mr_id, CreateKey(resp'))) =>
            /\ resp'.status = 409
            /\ UNCHANGED <<purchases, purchaseProducts, inventoryProducts>>
       /\ (/\ WellFormedCreate("transferCreate")
           /\ \E h \in transfers : SameName(h.trf_id, CreateKey(resp'))) =>
            /\ resp'.status = 409
            /\ UNCHANGED <<transfers, transferProducts, inventoryProducts>>]_vars

\* C13: a sale creation in which a line finds no ledger row at the inventory
\* with the product and at least the requested quantity fails with the
\* NotFound outcome, status 404.
C13_AbsentStockNotFound ==
    [][(resp'.op = "saleCreate" /\ resp'.reason = "stock") => resp'.status = 404]_vars

\* C14: a sale line matches a ledger row whose inventory and product equal
\* the requested names ignoring letter case: a sale creation does not fail
\* for lack of stock on its first line while such a row holds at least the
\* requested quantity, and every line of a committed sale was fulfilled from
\* a row with those names, which is decremented.
C14_CaseInsensitiveMatch ==
    [][resp'.op = "saleCreate" =>
         /\ (resp'.reason = "stock" /\ resp'.matched = <<>>) =>
              \A id \in DOMAIN inventoryProducts :
                 ~(/\ SameName(inventoryProducts[id].inventory, resp'.req.inventory)
                   /\ SameName(inventoryProducts[id].product, resp'.req.product)
                   /\ inventoryProducts[id].quantity >= resp'.req.quantity)
         /\ resp'.status = 201 =>
              LET lines == resp'.req.products
                  matched == resp'.matched
              IN \A n \in DOMAIN lines :
                   LET id == matched[n] IN
                   /\ SameName(inventoryProducts[id].inventory, resp'.req.inventory)
                   /\ SameName(inventoryProducts[id].product, lines[n].product)
                   /\ inventoryProducts'[id].quantity =
                        inventoryProducts[id].quantity
                          - MatchedSum(lines, matched, id, Len(lines))]_vars

\* C14 witness: a committed sale whose line was fulfilled from a row that
\* spells both the inventory and the product in the other letter case.
C14_Witness ==
    /\ Served("saleCreate", 201)
    /\ \E n \in DOMAIN resp.matched :
         LET row == inventoryProducts[resp.matched[n]] IN
         /\ row.product # resp.req.products[n].product
         /\ row.inventory # resp.req.inventory

RECURSIVE SumLines(_, _, _)
\* sum of the quantities of the lines of lot m and product p
SumLines(lines, m, p) ==
    IF lines = <<>> THEN 0
    ELSE (IF SameName(Head(lines).mr_id, m) /\ SameName(Head(lines).product, p)
          THEN Head(lines).quantity ELSE 0) + SumLines(Tail(lines), m, p)

\* C15: in every state reached by the create workflows every purchase, sale
\* and transfer header has at least one line row and every line row has its
\* header, and the ledger holds the effects of all persisted lines: every
\* purchase line has a ledger row of its lot and product, and for every lot
\* and product the ledger total is the purchased quantity minus the sold
\* quantity (transfers move stock without changing the total).
C15_HeadersWithLinesAndLedger ==
    /\ \A h \in purchases : \E i \in DOMAIN purchaseProducts :
          purchaseProducts[i].mr_id = h.mr_id
    /\ \A i \in DOMAIN purchaseProducts :
          /\ \E h \in purchases : h.mr_id = purchaseProducts[i].mr_id
          /\ \E id \in DOMAIN inventoryProducts :
               /\ inventoryProducts[id].mr_id = purchaseProducts[i].mr_id
               /\ inventoryProducts[id].product = purchaseProducts[i].product
    /\ \A h \in sales : \E i \in DOMAIN saleProducts :
          saleProducts[i].bill_id = h.bill_id
    /\ \A i \in DOMAIN saleProducts :
          \E h \in sales : h.bill_id = saleProducts[i].bill_id
    /\ \A h \in transfers : \E i \in DOMAIN transferProducts :
          transferProducts[i].trf_id = h.trf_id
    /\ \A i \in DOMAIN transferProducts :
          \E h \in transfers : h.trf_id = transferProducts[i].trf_id
    /\ \A m \in Lots, p \in products :
          Total(inventoryProducts, m, p) =
            SumLines(purchaseProducts, m, p) - SumLines(saleProducts, m, p)

\* C15 witness: a purchase, a sale and a transfer are persisted, and the last
\* request was a creation that failed after an earlier line had been applied.
C15_Witness ==
    /\ purchases # {} /\ sales # {} /\ transfers # {}
    /\ resp.op \in {"saleCreate", "transferCreate"}
    /\ resp.status # 201
    /\ Len(resp.matched) >= 1

\* C18: a successful purchase update of lot mrId leaves the ledger with the
\* same rows and the same quantities, and every row tagged with that lot,
\* wherever it was (the rows transfers made at other inventories included),
\* is afterwards at the inventory of the updated purchase header.
C18_LotRelocated ==
    [][(resp'.op = "purchaseUpdate" /\ resp'.status = 200) =>
         /\ DOMAIN inventoryProducts' = DOMAIN inventoryProducts
         /\ \A id \in DOMAIN inventoryProducts :
              /\ inventoryProducts'[id].quantity = inventoryProducts[id].quantity
              /\ inventoryProducts'[id].mr_id = inventoryProducts[id].mr_id
              /\ SameName(inventoryProducts[id].mr_id, resp'.req.mrId) =>
                   \E h \in purchases' :
                      /\ SameName(h.mr_id, resp'.req.mrId)
                      /\ inventoryProducts'[id].inventory = h.inventory]_vars

\* C18 witness: a purchase update moved the lot to inventory B while the lot
\* had rows at two inventories, one of them made by a transfer.
C18_Witness ==
    /\ Served("purchaseUpdate", 200)
    /\ resp.req.body.inventory = InvB
    /\ transferProducts # <<>>
    /\ Cardinality({id \in DOMAIN inventoryProducts :
                      /\ SameName(inventoryProducts[id].mr_id, resp.req.mrId)
                      /\ inventoryProducts[id].inventory = InvB}) >= 2
    /\ \E h \in purchases : h.mr_id = resp.req.mrId /\ h.inventory = InvB

\* C19: deleting a sale removes the sale headers the key matches and nothing
\* of the ledger: every ledger row is as it was, so the quantity the sale's
\* lines consumed stays consumed; a delete that finds no header changes
\* nothing at all.
C19_SaleDeleteKeepsLedger ==
    [][resp'.op = "saleDelete" =>
         /\ inventoryProducts' = inventoryProducts
         /\ UNCHANGED <<purchases, purchaseProducts, transfers, transferProducts>>
         /\ sales' \subseteq sales
         /\ resp'.status = 200 =>
              /\ sales' # sales
              /\ \A s \in sales :
                   SameName(s.bill_id, resp'.req.billId) => s \notin sales'
         /\ resp'.status # 200 => sales' = sales]_vars

\* C19 witness: the only sale was deleted and the ledger still lacks the
\* quantity its line consumed.
C19_Witness ==
    /\ Served("saleDelete", 200)
    /\ sales = {}
    /\ saleProducts # <<>>
    /\ \A m \in Lots, p \in products :
          Total(inventoryProducts, m, p) =
            SumLines(purchaseProducts, m, p) - SumLines(saleProducts, m, p)
    /\ Total(inventoryProducts, MR1, ProdP) < SumLines(purchaseProducts, MR1, ProdP)

\* C20: a transfer update, whether it answers 200, 404 or 409, leaves every
\* ledger row as it was and changes no transfer's source or destination
\* inventory: the transfers the key does not match are untouched, and when
\* the update succeeds the matched transfer differs from what it was in its
\* trf_id alone.
C20_TransferUpdateRenamesOnly ==
    [][resp'.op = "transferUpdate" =>
         /\ inventoryProducts' = inventoryProducts
         /\ UNCHANGED <<purchases, purchaseProducts, sales, saleProducts>>
         /\ resp'.status # 200 => UNCHANGED <<transfers, transferProducts>>
         /\ resp'.status = 200 =>
              /\ Cardinality(transfers') = Cardinality(transfers)
              /\ \A t \in transfers :
                   IF SameName(t.trf_id, resp'.req.trfId)
                   THEN [t EXCEPT !.trf_id = resp'.req.body.trf_id] \in transfers'
                   ELSE t \in transfers']_vars

\* C20 witness: a transfer that moved stock has been renamed, and the ledger
\* holds the source and the destination row of its line.
C20_Witness ==
    /\ Served("transferUpdate", 200)
    /\ resp.req.body.trf_id # resp.req.trfId
    /\ \E t \in transfers :
          /\ t.trf_id = resp.req.body.trf_id
          /\ t.source_inventory = InvA /\ t.destination_inventory = InvB
          /\ \E i \in DOMAIN transferProducts : transferProducts[i].trf_id = t.trf_id
    /\ \E id \in DOMAIN inventoryProducts : inventoryProducts[id].inventory = InvB

Committed(p) == txs[p].pc = "done" /\ txs[p].status = 201

\* what the lines of committed request p asked of ledger row id: the
\* quantities moved to it minus the quantities taken from it
Asked(p, id) ==
    IF ~Committed(p) THEN 0
    ELSE LET tx == txs[p]
             lines == tx.req.products
         IN MatchedSum(lines, tx.dsts, id, Len(tx.dsts))
              - MatchedSum(lines, tx.matched, id, Len(tx.matched))

\* C16: however the statements of two sale or transfer creations interleave,
\* every ledger row that existed when the first of them started holds, in
\* the committed ledger, its quantity of that moment minus the quantities
\* the lines of the committed requests took from it, plus the quantities
\* they moved to it: when both commit, no decrement is lost.
C16_NoLostDecrement ==
    \A id \in DOMAIN txs[1].base :
       inventoryProducts[id].quantity =
          txs[1].base[id].quantity + Asked(1, id) + Asked(2, id)

\* C16 witness: two creations were in flight together, both committed, and
\* lines of both took from the same ledger row.
C16_Witness ==
    /\ Committed(1) /\ Committed(2)
    /\ txs[2].overlap
    /\ \E id \in DOMAIN txs[1].base :
          /\ \E n \in DOMAIN txs[1].matched : txs[1].matched[n] = id
          /\ \E n \in DOMAIN txs[2].matched : txs[2].matched[n] = id

\* C17: in every committed state reached by two create requests in flight
\* together, with each availability select and the later relative decrement
\* as separate steps, no ledger row has a negative quantity.
C17_NeverNegativeUnderRace ==
    \A id \in DOMAIN inventoryProducts : inventoryProducts[id].quantity >= 0

\* the update just served and the request before it were both successful
\* updates of the same kind, through the same key, each supplying an adjustment
TwoAdjustments(op) ==
    /\ resp.op = op /\ resp'.op = op
    /\ resp.status = 200 /\ resp'.status = 200
    /\ Given(resp.req.body.adjustment)
    /\ Given(resp'.req.body.adjustment)

C22_PurchaseAddsRows ==
    [][(resp'.op = "purchaseCreate" /\ resp'.status = 201) =>
         LET req == resp'.req
             n == Len(req.products)
             old == Len(inventoryProducts)
         IN /\ Len(inventoryProducts') = old + n
            /\ \A id \in 1..old : inventoryProducts'[id] = inventoryProducts[id]
            /\ \A k \in 1..n :
                 inventoryProducts'[old + k] =
                   [mr_id |-> req.mr_id, inventory |-> req.inventory,
                    product |-> req.products[k].product,
                    quantity |-> req.products[k].quantity]]_vars

\* C22 witness: a purchase of two lines was created when the ledger already
\* held a row of the same inventory and product as one of its lines.
C22_Witness ==
    /\ Served("purchaseCreate", 201)
    /\ Len(resp.req.products) = 2
    /\ \E id \in 1..(Len(inventoryProducts) - 2) :
          /\ inventoryProducts[id].inventory = resp.req.inventory
          /\ inventoryProducts[id].product = resp.req.products[1].product

\* a line of a purchase request that cannot be stored: its product is not in
\* the catalog, it fails the line schema, or an earlier line of the request
\* names the same product
PurchaseLineFails(lines, k) ==
    \/ \A c \in products : ~SameName(c, lines[k].product)
    \/ lines[k].product = <<>>
    \/ lines[k].quantity <= 0
    \/ lines[k].unit_price <= 0
    \/ \E j \in 1..(k - 1) : lines[j].product = lines[k].product

\* C23: a purchase creation in which any line fails persists nothing: a
\* creation is answered 201 only if none of its lines fails, and a creation
\* answered otherwise leaves every table (headers, lines, ledger) unchanged.
C23_PurchaseAllOrNothing ==
    [][resp'.op = "purchaseCreate" =>
         /\ resp'.status = 201 =>
              \A k \in DOMAIN resp'.req.products :
                 ~PurchaseLineFails(resp'.req.products, k)
         /\ resp'.status # 201 => UNCHANGED tables]_vars

\* C23 witness: a purchase creation failed inside its transaction, at a line
\* after the first, and the ledger holds no row and the tables no header or
\* line of the key it named.
C23_Witness ==
    /\ resp.op = "purchaseCreate"
    /\ resp.reason = "duplicate"
    /\ \A h \in purchases : h.mr_id # resp.req.key
    /\ \A i \in DOMAIN purchaseProducts : purchaseProducts[i].mr_id # resp.req.key
    /\ \A id \in DOMAIN inventoryProducts : inventoryProducts[id].mr_id # resp.req.key


\* ledger rows of lot m, product p at inventory inv, names compared ignoring case
RowsAt(ip, inv, m, p) ==
    {id \in DOMAIN ip : /\ SameName(ip[id].inventory, inv)
                        /\ SameName(ip[id].mr_id, m)
                        /\ SameName(ip[id].product, p)}

\* C24: a successful transfer creation, for each (mr_id, product) its lines
\* name, adds the lines' quantities to the destination ledger row when one
\* exists (no row is added), and otherwise leaves exactly one new destination
\* row holding the sum of those lines' quantities, also when two lines name
\* the same lot and product.
C24_TransferUpsertsDestination ==
    [][(resp'.op = "transferCreate" /\ resp'.status = 201) =>
         LET req == resp'.req
             dest == req.destination_inventory
             back == SameName(req.source_inventory, dest)
         IN \A m \in Lots, p \in products :
              LET asked == SumLines(req.products, m, p) IN
              asked > 0 =>
                IF RowsAt(inventoryProducts, dest, m, p) # {}
                THEN /\ RowsAt(inventoryProducts', dest, m, p)
                          = RowsAt(inventoryProducts, dest, m, p)
                     /\ TotalAt(inventoryProducts', dest, m, p)
                          = TotalAt(inventoryProducts, dest, m, p)
                            + (IF back THEN 0 ELSE asked)
                ELSE /\ Cardinality(RowsAt(inventoryProducts', dest, m, p)) = 1
                     /\ TotalAt(inventoryProducts', dest, m, p) = asked]_vars

\* C24 witness: the only transfer so far, into an inventory that received no
\* purchase, had two lines naming one lot and product and left one
\* destination row holding both quantities.
C24_Witness ==
    /\ Served("transferCreate", 201)
    /\ Cardinality(transfers) = 1
    /\ \A h \in purchases : ~SameName(h.inventory, resp.req.destination_inventory)
    /\ Len(resp.req.products) = 2
    /\ SameName(resp.req.products[1].mr_id, resp.req.products[2].mr_id)
    /\ resp.req.products[1].mr_id # resp.req.products[2].mr_id
    /\ LET rows == RowsAt(inventoryProducts, resp.req.destination_inventory,
                          MR1, ProdP)
       IN /\ Cardinality(rows) = 1
          /\ \A id \in rows : inventoryProducts[id].quantity = 2


\* two transfer creations were in flight together, both committed, and the
\* ledger held no row of (MR1, ProdP) at their destination when the first
\* of them started
TwoTransfersToNewRow ==
    /\ Committed(1) /\ Committed(2)
    /\ txs[2].overlap
    /\ txs[1].kind = "transfer" /\ txs[2].kind = "transfer"
    /\ RowsAt(txs[1].base, InvB, MR1, ProdP) = {}

\* C25: when two transfer creations moving the same (mr_id, product) to the
\* same destination, where no destination row exists yet, run concurrently
\* and both commit, the committed ledger holds exactly one row for
\* (mr_id, destination, product), whose quantity is the sum of the
\* quantities both requests moved.
C25_OneDestinationRowUnderRace ==
    TwoTransfersToNewRow =>
       /\ Cardinality(RowsAt(inventoryProducts, InvB, MR1, ProdP)) = 1
       /\ TotalAt(inventoryProducts, InvB, MR1, ProdP)
            = SumLines(txs[1].req.products, MR1, ProdP)
              + SumLines(txs[2].req.products, MR1, ProdP)


\* both requests are sale creations under one bill_id
SameBillRace ==
    /\ txs[1].kind = "sale" /\ txs[2].kind = "sale"
    /\ txs[1].req.bill_id = txs[2].req.bill_id

\* the persisted sale lines of bill_id key
LinesOfBill(key) == SelectSeq(saleProducts, LAMBDA l : l.bill_id = key)

\* C26: when two sale creations with the same bill_id are in flight together,
\* at most one sale header with that bill_id is ever persisted and at most
\* one of the requests commits; a request that has failed stays failed, and
\* the persisted sale lines and ledger quantities are exactly those of the
\* other request, if it committed.
C26_OneSalePerBillUnderRace ==
    SameBillRace =>
       LET key == txs[1].req.bill_id IN
       /\ Cardinality({h \in sales : h.bill_id = key}) <= 1
       /\ ~(Committed(1) /\ Committed(2))
       /\ \A p \in Procs :
             (txs[p].pc = "done" /\ txs[p].status # 201) =>
                /\ Len(LinesOfBill(key))
                     = IF Committed(Other(p)) THEN Len(txs[Other(p)].req.products)
                       ELSE 0
                /\ \A id \in DOMAIN txs[1].base :
                      inventoryProducts[id].quantity
                        = txs[1].base[id].quantity + Asked(Other(p), id)

\* C26 witness: two sale creations with one bill_id both passed the existence
\* check while neither had committed; one committed and the other failed on
\* the unique index.
C26_Witness ==
    /\ SameBillRace
    /\ txs[2].overlap
    /\ \E p \in Procs :
          /\ Committed(p)
          /\ txs[Other(p)].pc = "done" /\ txs[Other(p)].status = 500
          /\ resp.reason = "unique"
          /\ Cardinality(sales) = 1
          /\ Len(saleProducts) = Len(txs[p].req.products)


\* C27: after a successful sale creation with n lines, the k-th of the n sale
\* lines it appended records the mr_id of the ledger row selected for the
\* k-th request line and the requested inventory, and every ledger row has
\* lost exactly the quantities of the lines it was selected for.
C27_SaleLineNamesDecrementedRow ==
    [][(resp'.op = "saleCreate" /\ resp'.status = 201) =>
         LET req == resp'.req
             n == Len(req.products)
             old == Len(saleProducts)
         IN /\ Len(resp'.matched) = n
            /\ Len(saleProducts') = old + n
            /\ \A k \in 1..n :
                  /\ resp'.matched[k] \in DOMAIN inventoryProducts
                  /\ saleProducts'[old + k].mr_id
                       = inventoryProducts[resp'.matched[k]].mr_id
                  /\ saleProducts'[old + k].inventory = req.inventory
                  /\ saleProducts'[old + k].product = req.products[k].product
            /\ \A id \in DOMAIN inventoryProducts :
                  inventoryProducts'[id].quantity
                    = inventoryProducts[id].quantity
                      - MatchedSum(req.products, resp'.matched, id, n)]_vars

\* C27 witness: a committed sale of two lines of one product whose lines were
\* served from ledger rows of two different lots at the requested inventory.
C27_Witness ==
    /\ Served("saleCreate", 201)
    /\ Len(resp.req.products) = 2
    /\ Len(saleProducts) >= 2
    /\ resp.matched[1] # resp.matched[2]
    /\ saleProducts[Len(saleProducts) - 1].mr_id = MR1
    /\ saleProducts[Len(saleProducts)].mr_id = MR2
    /\ inventoryProducts[resp.matched[2]].mr_id = MR2
    /\ saleProducts[Len(saleProducts)].inventory = resp.req.inventory


\* a name that is none of the names of the set, letter case ignored
Unknown(name, names) == \A n \in names : ~SameName(n, name)

\* the status the checks made before the transaction give a create request
\* when they run in the order: products non-empty, header schema, business
\* key in use, referenced entities; 0 when the request passes them all
ExpectedPurchase(req) ==
    IF Len(req.products) = 0 THEN 400
    ELSE IF ~insertPurchaseSchemaOk(req) THEN 400
    ELSE IF \E h \in purchases : SameName(h.mr_id, req.mr_id) THEN 409
    ELSE IF Unknown(req.vendor, vendors) \/ Unknown(req.inventory, inventories)
         THEN 404
    ELSE 0
ExpectedSale(req) ==
    IF Len(req.products) = 0 THEN 400
    ELSE IF ~insertSaleSchemaOk(req) THEN 400
    ELSE IF \E h \in sales : SameName(h.bill_id, req.bill_id) THEN 409
    ELSE IF req.customer_id \notin customers \/ Unknown(req.inventory, inventories)
         THEN 404
    ELSE 0
ExpectedTransfer(req) ==
    IF Len(req.products) = 0 THEN 400
    ELSE IF ~insertTransferSchemaOk(req) THEN 400
    ELSE IF \E h \in transfers : SameName(h.trf_id, req.trf_id) THEN 409
    ELSE IF \/ Unknown(req.source_inventory, inventories)
            \/ Unknown(req.destination_inventory, inventories)
         THEN 404
    ELSE 0

\* the request just served was answered with the given status and wrote nothing
RejectedWith(status) == status # 0 => (resp'.status = status /\ UNCHANGED tables)

\* C28: a create request that fails a check made before the transaction is
\* answered by the first check it fails, in the order products non-empty
\* (400), header schema (400), business key in use (409), referenced
\* customer, vendor or inventory unknown (404), and writes to no table.
C28_RejectOrderNoWrite ==
    [][/\ \A req \in RejectPurchaseReqs :
            Serve(PurchaseCreate(req)) => RejectedWith(ExpectedPurchase(req))
       /\ \A req \in RejectSaleReqs :
            Serve(SaleCreate(req)) => RejectedWith(ExpectedSale(req))
       /\ \A req \in RejectTransferReqs :
            Serve(TransferCreate(req)) => RejectedWith(ExpectedTransfer(req))]_vars


\* C29: a purchase update is all-or-nothing: in every state from its first
\* statement on, the header holds the updated data and the ledger rows that
\* existed hold the relocated lot, or the header and those rows are as they
\* were before the request; after an update answered 500 they are as they
\* were before the request.
C29_PurchaseUpdateAtomic ==
    LET tx == txs[1]
        r == tx.req
        ledger == SubSeq(inventoryProducts, 1, Len(tx.base))
        both == /\ r.updatedData \in purchases
                /\ ledger = RelocateLot(tx.base, r.mrId, r.updatedData.inventory)
        neither == /\ r.existingPurchase \in purchases
                   /\ ledger = tx.base
    IN (/\ tx.kind = "purchaseUpdate"
        /\ tx.pc \in {"relocate", "done"}
        /\ tx.status \in {0, 200, 500}) =>
          /\ both \/ neither
          /\ tx.status = 500 => neither


\* C30: a transfer deletion that is not answered 200 leaves every table as it
\* was before the request: the header, its lines and every ledger quantity,
\* also those of the lines reversed before the failing line.
C30_TransferDeleteAllOrNothing ==
    [][(resp'.op = "transferDelete" /\ resp'.status # 200) =>
         UNCHANGED tables]_vars

\* C30 witness: a deletion answered 500 of a transfer of two lines, where the
\* destination still holds stock of the first line's lot (so that line was
\* reversed) and no row of the second line's lot; header, lines and the
\* destination quantity are in place.
C30_Witness ==
    /\ Served("transferDelete", 500)
    /\ \E t \in transfers : t.trf_id = Trf1
    /\ Len(transferProducts) = 2
    /\ transferProducts[1].mr_id = MR1 /\ transferProducts[2].mr_id = MR2
    /\ TotalAt(inventoryProducts, InvB, MR1, ProdP) = 1
    /\ RowsAt(inventoryProducts, InvB, MR2, ProdP) = {}


\* the header's adjustment lies between 0 and the sum of its line totals and
\* its total is that sum minus the adjustment
SaleHeaderSound(h, lines) ==
    LET lineSum == HeaderLinesTotal(lines, "bill_id", h.bill_id) IN
    /\ 0 <= h.adjustment
    /\ h.adjustment <= lineSum
    /\ h.total_amount = lineSum - h.adjustment

\* C31: a sale creation stores adjustment 0 and total_amount = lineSum; a
\* sale update, successful or rejected, of a header with
\* 0 <= adjustment <= lineSum and total_amount = lineSum - adjustment leaves
\* the sale's lines as they were and stores a header with the same two
\* properties for the same lineSum; a rejected update stores nothing, and an
\* update that supplies no adjustment keeps adjustment and total_amount.
C31_SaleUpdateKeepsHeaderSound ==
    [][/\ (resp'.op = "saleCreate" /\ resp'.status = 201
           /\ HeaderLinesTotal(saleProducts, "bill_id", resp'.req.bill_id) = 0) =>
            \A g \in sales' :
               g.bill_id = resp'.req.bill_id => SaleHeaderSound(g, saleProducts')
       /\ resp'.op = "saleUpdate" =>
            /\ saleProducts' = saleProducts
            /\ resp'.status # 200 => sales' = sales
            /\ resp'.status = 200 =>
                 \A h \in sales :
                    (SameName(h.bill_id, resp'.req.billId)
                     /\ SaleHeaderSound(h, saleProducts)) =>
                       LET body == resp'.req.body
                           lineSum == HeaderLinesTotal(saleProducts, "bill_id", h.bill_id)
                       IN \E g \in sales' :
                            /\ g.bill_id = Or(body.bill_id, h.bill_id)
                            /\ sales' = (sales \ {h}) \cup {g}
                            /\ 0 <= g.adjustment
                            /\ g.adjustment <= lineSum
                            /\ g.total_amount = lineSum - g.adjustment
                            /\ ~Given(body.adjustment) =>
                                  /\ g.adjustment = h.adjustment
                                  /\ g.total_amount = h.total_amount]_vars

\* C31 witness: a sale whose adjustment was set by one update has been
\* updated again without an adjustment, and still stores the adjustment
\* and total_amount = lineSum - adjustment.
C31_Witness ==
    /\ Served("saleUpdate", 200)
    /\ ~Given(resp.req.body.adjustment)
    /\ ~Given(resp.req.body.bill_id)
    /\ \E h \in sales :
          /\ SameName(h.bill_id, resp.req.billId)
          /\ h.adjustment > 0
          /\ SaleHeaderSound(h, saleProducts)


\* C32: lookups by key match only on equality ignoring letter case, also for
\* keys containing '%' or '_': a sale creation is answered 409 only when a
\* sale whose bill_id equals the requested one ignoring case exists, and a
\* sale or transfer deletion removes only headers whose key equals the path
\* parameter ignoring case.
C32_LookupsMatchEqualKeysOnly ==
    [][/\ (resp'.op = "saleCreate" /\ resp'.status = 409) =>
            \E h \in sales : SameName(h.bill_id, resp'.req.key)
       /\ resp'.op = "saleDelete" =>
            \A h \in sales \ sales' : SameName(h.bill_id, resp'.req.billId)
       /\ resp'.op = "transferDelete" =>
            \A t \in transfers \ transfers' :
               SameName(t.trf_id, resp'.req.trfId)]_vars

====
